---- MODULE Spec2Model ----
(***************************************************************************)
(* A model of the coordinator of the distributed file store                *)
(* (src/server.py, schema in src/db_setup.py): the storage node            *)
(* directories, the catalog metadata.db, and the request handlers upload,  *)
(* download and rollback, with the helpers they call.                      *)
(*                                                                         *)
(* Sizes are in model units: CHUNK_SIZE and CAP are the program's          *)
(* constants scaled down (the program has 4 MiB and 500 MiB), file         *)
(* contents are short sequences of byte values.                            *)
(***************************************************************************)
EXTENDS Integers, Sequences, FiniteSets, TLC

(***************************************************************************)
(* Program constants.                                                      *)
(***************************************************************************)
\* CHUNK_SIZE (server.py:32), scaled: a chunk holds two content bytes.
CHUNK_SIZE == 2
\* total_capacity of a node (server.py:1326), scaled.
CAP == 8
\* UPLOAD_FOLDERS in dictionary order (server.py:48-52): node names.
UPLOAD_FOLDERS == <<"Node1", "Node2", "Node3">>

NodeNames == {UPLOAD_FOLDERS[i] : i \in 1..Len(UPLOAD_FOLDERS)}

(***************************************************************************)
(* Bounds of the model.                                                    *)
(***************************************************************************)
\* Upload requests handled in one behaviour.
MaxUploads == 3

\* The filenames clients use.  "g h" and "g_h" are different filenames with
\* the same secure_filename.
FileNames == {"f", "g h", "g_h"}

\* The file contents clients upload: empty, shorter than a chunk, and
\* spanning two chunks.
Contents == {<< >>, <<7>>, <<8, 9, 7>>}

\* Archive rows written in one behaviour.
MaxArchives == 1

\* The file ids the administrator names.
NumFileIds == 1

\* Request threads that handle uploads at the same time.
NumProcs == 2

\* Chunk files the environment loses or damages in one behaviour.
MaxFaults == 2

\* The version parameters clients send; 0 stands for "no version parameter".
NoVersion == 0

(***************************************************************************)
(* Pure helpers of the program.                                            *)
(***************************************************************************)

\* werkzeug's secure_filename as upload_file uses it: whitespace becomes "_".
secure_filename(name) == IF name = "g h" THEN "g_h" ELSE name

\* calculate_hash: SHA-256, modelled as an injective tagging of the data.
calculate_hash(data) == [sha |-> data]

\* encrypt_and_compress_data: zlib then Fernet.  A token is a sequence of
\* cipher bytes: a header carrying the length of the data, then one cipher
\* byte per data byte.  A Fernet token carries a fresh IV, so two encryptions
\* of the same bytes differ; iv is the fresh part and marks every cipher byte.
encrypt_and_compress_data(data, iv) ==
    <<[iv |-> iv, k |-> 0, b |-> Len(data)]>>
    \o [k \in 1..Len(data) |-> [iv |-> iv, k |-> k, b |-> data[k]]]

\* Whether a byte string is a whole token: Fernet authenticates the token, so
\* a truncated, concatenated or foreign byte string is rejected.
IsToken(payload) ==
    /\ Len(payload) >= 1
    /\ payload[1].k = 0
    /\ payload[1].b = Len(payload) - 1
    /\ \A j \in 2..Len(payload) :
          payload[j].iv = payload[1].iv /\ payload[j].k = j - 1

\* decrypt_and_decompress_data: ok = FALSE stands for its exception.
decrypt_and_decompress_data(payload) ==
    IF IsToken(payload)
    THEN [ok |-> TRUE, data |-> [j \in 1..(Len(payload) - 1) |-> payload[j + 1].b]]
    ELSE [ok |-> FALSE, data |-> << >>]

\* os.path.getsize of a stored payload.
PayloadSize(payload) == Len(payload)

\* Number of CHUNK_SIZE reads that return data for a file of length len.
NumChunks(len) == (len + CHUNK_SIZE - 1) \div CHUNK_SIZE

\* The i-th (from 0) CHUNK_SIZE read of content.
ChunkOf(content, i) ==
    SubSeq(content, i * CHUNK_SIZE + 1,
           IF (i + 1) * CHUNK_SIZE < Len(content)
           THEN (i + 1) * CHUNK_SIZE ELSE Len(content))

(***************************************************************************)
(* The node directories.  A disk is a function from the paths of the       *)
(* existing chunk files to their bytes.  A path is a node and a basename;  *)
(* a basename is <secure filename>_chunk_<idx>, with the suffix "_new"     *)
(* when new is TRUE.                                                       *)
(***************************************************************************)
ChunkPath(node, name, idx) ==
    [node |-> node, base |-> [name |-> name, idx |-> idx, new |-> FALSE]]

Exists(d, path) == path \in DOMAIN d

WriteFile(d, path, data) ==
    [q \in (DOMAIN d) \cup {path} |-> IF q = path THEN data ELSE d[q]]

RemoveFile(d, path) == [q \in (DOMAIN d) \ {path} |-> d[q]]

RECURSIVE SumSizes(_, _)
SumSizes(d, paths) ==
    IF paths = {} THEN 0
    ELSE LET p == CHOOSE q \in paths : TRUE
         IN  PayloadSize(d[p]) + SumSizes(d, paths \ {p})

\* get_node_usage: the bytes used in a node's directory.
UsedSpace(d, node) == SumSizes(d, {p \in DOMAIN d : p.node = node})

\* get_node_usage: available_space of a node.
AvailableSpace(d, node) == CAP - UsedSpace(d, node)

NoNode == "NoNode"

\* The last node, in UPLOAD_FOLDERS order, of least usage among cands: what
\* a minimum that keeps the last of equal keys would return.
RECURSIVE LastMin(_, _, _, _)
LastMin(d, cands, i, best) ==
    IF i > Len(UPLOAD_FOLDERS) THEN best
    ELSE IF /\ UPLOAD_FOLDERS[i] \in cands
            /\ (best = NoNode \/ UsedSpace(d, UPLOAD_FOLDERS[i]) <= UsedSpace(d, best))
         THEN LastMin(d, cands, i + 1, UPLOAD_FOLDERS[i])
         ELSE LastMin(d, cands, i + 1, best)

\* The first node, in UPLOAD_FOLDERS order, of least usage among cands:
\* Python's min over the dictionary items keeps the first minimum.
RECURSIVE FirstMin(_, _, _, _)
FirstMin(d, cands, i, best) ==
    IF i > Len(UPLOAD_FOLDERS) THEN best
    ELSE IF /\ UPLOAD_FOLDERS[i] \in cands
            /\ (best = NoNode \/ UsedSpace(d, UPLOAD_FOLDERS[i]) < UsedSpace(d, best))
         THEN FirstMin(d, cands, i + 1, UPLOAD_FOLDERS[i])
         ELSE FirstMin(d, cands, i + 1, best)

\* select_storage_node: NoNode stands for the exception "No suitable nodes".
select_storage_node(chunk_size, d, excluded_nodes) ==
    FirstMin(d,
             {n \in NodeNames \ excluded_nodes : AvailableSpace(d, n) >= chunk_size},
             1, NoNode)

\* replicate_chunk: two placement attempts; returns the disk and the sequence
\* of replica paths created.  A failed selection and an already existing
\* replica file both skip the attempt without excluding a node.
RECURSIVE ReplicaAttempts(_, _, _, _, _)
RECURSIVE ReplicaAttempt(_, _, _, _, _, _)
ReplicaAttempts(d, chunk_path, excluded_nodes, attempts, replica_locations) ==
    IF attempts = 0
    THEN [disk |-> d, replicas |-> replica_locations]
    ELSE ReplicaAttempt(d, chunk_path, excluded_nodes, attempts, replica_locations,
             select_storage_node(PayloadSize(d[chunk_path]), d, excluded_nodes))

\* One attempt of the loop, replica_node being the node selected for it.
ReplicaAttempt(d, chunk_path, excluded_nodes, attempts, replica_locations, replica_node) ==
    IF \/ replica_node = NoNode
       \/ Exists(d, [node |-> replica_node, base |-> chunk_path.base])
    THEN ReplicaAttempts(d, chunk_path, excluded_nodes, attempts - 1,
                         replica_locations)
    ELSE ReplicaAttempts(
             WriteFile(d, [node |-> replica_node, base |-> chunk_path.base],
                       d[chunk_path]),
             chunk_path, excluded_nodes \cup {replica_node}, attempts - 1,
             Append(replica_locations,
                    [node |-> replica_node, base |-> chunk_path.base]))

replicate_chunk(d, chunk_path) ==
    ReplicaAttempts(d, chunk_path, {chunk_path.node}, 2, << >>)

(***************************************************************************)
(* upload_file, the part before the catalog (server.py:1462-1501).         *)
(***************************************************************************)

\* The loop over the CHUNK_SIZE reads: encrypt, select a node, write the chunk
\* file <name>_chunk_<i>.  u numbers the upload request; it makes the tokens'
\* IVs fresh.  ok = FALSE stands for the exception of select_storage_node.
RECURSIVE WriteChunks(_, _, _, _, _, _)
RECURSIVE WriteChunk(_, _, _, _, _, _, _)
WriteChunks(d, name, content, u, i, chunks) ==
    IF i >= NumChunks(Len(content))
    THEN [ok |-> TRUE, disk |-> d, chunks |-> chunks]
    ELSE WriteChunk(d, name, content, u, i, chunks,
             select_storage_node(
                 PayloadSize(encrypt_and_compress_data(ChunkOf(content, i), <<u, i>>)),
                 d, {}))

\* One pass of the loop, target_node being the node selected for chunk i.
WriteChunk(d, name, content, u, i, chunks, target_node) ==
    IF target_node = NoNode
    THEN [ok |-> FALSE, disk |-> d, chunks |-> chunks]
    ELSE WriteChunks(WriteFile(d, ChunkPath(target_node, name, i),
                               encrypt_and_compress_data(ChunkOf(content, i), <<u, i>>)),
                     name, content, u, i + 1,
                     Append(chunks, ChunkPath(target_node, name, i)))

\* Selection of initial_node for the whole file (it only becomes
\* metadata.location), then the chunk loop.
ChunkPhaseAt(d, name, content, u, initial_node) ==
    IF initial_node = NoNode
    THEN [ok |-> FALSE, disk |-> d, chunks |-> << >>, initial_node |-> NoNode]
    ELSE [initial_node |-> initial_node] @@ WriteChunks(d, name, content, u, 0, << >>)

ChunkPhase(d, name, content, u) ==
    ChunkPhaseAt(d, name, content, u, select_storage_node(Len(content), d, {}))

\* The except branch of upload_file: remove the chunk files of the local list.
RECURSIVE CleanupChunks(_, _)
CleanupChunks(d, chunks) ==
    IF chunks = << >> THEN d
    ELSE CleanupChunks(IF Exists(d, Head(chunks)) THEN RemoveFile(d, Head(chunks)) ELSE d,
                       Tail(chunks))

(***************************************************************************)
(* The catalog (metadata.db).  A catalog is a record of tables; metadata,  *)
(* chunks and version_changes are sequences whose index is the row id      *)
(* (AUTOINCREMENT, no row is ever deleted), versions is a set because of   *)
(* UNIQUE(file_id, version_number), deduplication is a set because of      *)
(* UNIQUE(content_hash), consistency_status is a set because of            *)
(* UNIQUE(file_id, version_number, node_name).  A nullable column holds a  *)
(* set: {} for NULL, {x} for the value x.  Timestamps are days.            *)
(***************************************************************************)
EmptyCatalog ==
    [metadata |-> << >>, versions |-> {}, chunks |-> << >>, version_changes |-> << >>,
     archives |-> << >>, deduplication |-> {}, consistency_status |-> {}]

SetMin(S) == CHOOSE x \in S : \A y \in S : x <= y

FileIds(cat, filename) ==
    {i \in 1..Len(cat.metadata) : cat.metadata[i].filename = filename}

\* SELECT id, current_version FROM metadata WHERE filename = ? ; fetchone():
\* the first row in rowid order, id = 0 when there is none.
SelectFile(cat, filename) ==
    IF FileIds(cat, filename) = {}
    THEN [id |-> 0, current_version |-> 0]
    ELSE [id |-> SetMin(FileIds(cat, filename)),
          current_version |->
              cat.metadata[SetMin(FileIds(cat, filename))].current_version]

HasVersion(cat, file_id, version) ==
    \E v \in cat.versions : v.file_id = file_id /\ v.version_number = version

\* The version upload_file would assign if it skipped a number.
NewVersionSkipping(existing_file) ==
    IF existing_file.id # 0 THEN existing_file.current_version + 2 ELSE 1

\* The version number upload_file assigns.
NewVersion(existing_file) ==
    IF existing_file.id # 0 THEN existing_file.current_version + 1 ELSE 1

\* The id of the metadata row upload_file writes: the existing row's, or
\* lastrowid of the INSERT.
UploadFileId(cat, existing_file) ==
    IF existing_file.id # 0 THEN existing_file.id ELSE Len(cat.metadata) + 1

\* upload_file lines 1530-1553: insert or update the metadata row, ts being
\* datetime.now().  The INSERT names eight columns; the others take their
\* defaults: storage_tier 'hot', access_count 0, is_archived 0, and NULL for
\* last_accessed, content_hash and deduplication_ref.
WriteMetadata(cat, filename, content, initial_node, existing_file, ts) ==
    IF existing_file.id = 0
    THEN Append(cat.metadata,
                [filename |-> filename, current_version |-> NewVersion(existing_file),
                 size |-> Len(content), location |-> initial_node,
                 replicas |-> {}, storage_tier |-> "hot", is_archived |-> 0,
                 upload_timestamp |-> ts, last_accessed |-> {}, access_count |-> 0,
                 content_hash |-> {}, deduplication_ref |-> {}])
    ELSE [cat.metadata EXCEPT
              ![existing_file.id].current_version = NewVersion(existing_file),
              ![existing_file.id].size = Len(content),
              ![existing_file.id].location = initial_node,
              ![existing_file.id].upload_timestamp = ts]

\* upload_file lines 1555-1564: the versions row, ts being datetime.now().
VersionRow(file_id, version, content, ts) ==
    [file_id |-> file_id, version_number |-> version, timestamp |-> ts,
     size |-> Len(content), hash |-> calculate_hash(content)]

ChunkRow(file_id, version, path, hash, status) ==
    [file_id |-> file_id, version_number |-> version, chunk_index |-> path.base.idx,
     chunk_location |-> path, chunk_hash |-> hash, status |-> status]

\* upload_file lines 1566-1599: per chunk of the local list, hash the chunk
\* file, insert its row, replicate it and insert a row per replica created.
\* ok = FALSE stands for the exception of open() on a missing chunk file.
RECURSIVE StoreChunks(_, _, _, _, _)
RECURSIVE StoreChunk(_, _, _, _, _, _)
StoreChunks(rows, d, file_id, new_version, chunks) ==
    IF chunks = << >>
    THEN [ok |-> TRUE, rows |-> rows, disk |-> d]
    ELSE IF ~Exists(d, Head(chunks))
    THEN [ok |-> FALSE, rows |-> rows, disk |-> d]
    ELSE StoreChunk(rows, d, file_id, new_version, chunks,
                    replicate_chunk(d, Head(chunks)))

\* One pass of the loop, rep being what replicate_chunk returned.
StoreChunk(rows, d, file_id, new_version, chunks, rep) ==
    StoreChunks(
        rows
        \o <<ChunkRow(file_id, new_version, Head(chunks),
                      calculate_hash(d[Head(chunks)]), "active")>>
        \o [j \in 1..Len(rep.replicas) |->
              ChunkRow(file_id, new_version, rep.replicas[j],
                       calculate_hash(d[Head(chunks)]), "active")],
        rep.disk, file_id, new_version, Tail(chunks))

\* upload_file lines 1601-1622: metadata.replicas and the version_changes row,
\* sc being what the loop over the chunks returned.
FinishUploadTxn(cat, file_id, new_version, existing_file, sc) ==
    [ok |-> sc.ok, disk |-> sc.disk, version |-> new_version,
     cat |-> [cat EXCEPT
         !.chunks = @ \o sc.rows,
         !.metadata[file_id].replicas =
             {sc.rows[j].chunk_location.node : j \in 1..Len(sc.rows)},
         !.version_changes =
             Append(@, [file_id |-> file_id,
                        old_version |-> existing_file.current_version,
                        new_version |-> new_version,
                        change_type |-> IF existing_file.id # 0 THEN "update"
                                        ELSE "create"])]]

\* upload_file lines 1530-1564: the metadata row and the versions row.
MetadataStatements(cat, filename, content, initial_node, existing_file, ts) ==
    [cat EXCEPT
        !.metadata = WriteMetadata(cat, filename, content, initial_node, existing_file,
                                   ts),
        !.versions = @ \cup {VersionRow(UploadFileId(cat, existing_file),
                                        NewVersion(existing_file), content, ts)}]

\* The statements of upload_file's transaction (server.py:1508-1622) on the
\* catalog cat, existing_file being the row the first SELECT returned.  ok =
\* FALSE stands for an exception: the IntegrityError of
\* UNIQUE(file_id, version_number) or a missing chunk file.
UploadStatements(cat, d, filename, content, chunks, initial_node, existing_file, ts) ==
    IF HasVersion(cat, UploadFileId(cat, existing_file), NewVersion(existing_file))
    THEN [ok |-> FALSE, disk |-> d, version |-> 0, cat |-> cat]
    ELSE FinishUploadTxn(
             MetadataStatements(cat, filename, content, initial_node, existing_file, ts),
             UploadFileId(cat, existing_file), NewVersion(existing_file),
             existing_file,
             StoreChunks(<< >>, d, UploadFileId(cat, existing_file),
                         NewVersion(existing_file), chunks))

\* The outcome of the transaction: the connection commits when the
\* statements ran through and rolls back when one raised.  After a rollback
\* the catalog is the old one; the replica files written meanwhile stay.
Commit(cat, st) ==
    [ok |-> st.ok, disk |-> st.disk,
     version |-> IF st.ok THEN st.version ELSE 0,
     cat |-> IF st.ok THEN st.cat ELSE cat]

UploadTxn(cat, d, filename, content, chunks, initial_node, existing_file, ts) ==
    Commit(cat, UploadStatements(cat, d, filename, content, chunks, initial_node,
                                 existing_file, ts))

\* upload_file after the transaction tx of an upload whose chunk phase
\* returned cp: the except branch removes the chunk files of the local list.
UploadAfterTxn(cp, tx) ==
    [ok |-> tx.ok, version |-> tx.version, cat |-> tx.cat,
     disk |-> IF tx.ok THEN tx.disk ELSE CleanupChunks(tx.disk, cp.chunks)]

\* upload_file after the chunk phase cp.
UploadAfterChunks(cat, filename, content, cp, ts) ==
    IF ~cp.ok
    THEN [ok |-> FALSE, version |-> 0, cat |-> cat,
          disk |-> CleanupChunks(cp.disk, cp.chunks)]
    ELSE UploadAfterTxn(cp,
             UploadTxn(cat, cp.disk, filename, content, cp.chunks,
                       cp.initial_node, SelectFile(cat, filename), ts))

\* upload_file as a whole (server.py:1445-1652), as the u-th upload request:
\* whether it answered 200, the version it assigned, the catalog and the disk
\* it leaves.  ts is the day of the request.
upload_file(cat, d, filename, content, u, ts) ==
    UploadAfterChunks(cat, filename, content,
                      ChunkPhase(d, secure_filename(filename), content, u), ts)

(***************************************************************************)
(* download_file (server.py:1915-2027).                                    *)
(***************************************************************************)
Response(op, filename, version, status, data) ==
    [op |-> op, filename |-> filename, version |-> version, status |-> status,
     data |-> data]

\* The first query of download_file and the line that reads its result.
\* With a version parameter the query selects the columns id and
\* version_number, and result['current_version'] raises IndexError: "error".
\* Without one, the first metadata row of that filename is taken.
ResolveVersion(cat, filename, version) ==
    IF version # NoVersion
    THEN IF \E i \in FileIds(cat, filename) : HasVersion(cat, i, version)
         THEN [outcome |-> "error", file_id |-> 0, version_number |-> 0]
         ELSE [outcome |-> "notfound", file_id |-> 0, version_number |-> 0]
    ELSE IF FileIds(cat, filename) = {}
         THEN [outcome |-> "notfound", file_id |-> 0, version_number |-> 0]
         ELSE [outcome |-> "found", file_id |-> SelectFile(cat, filename).id,
               version_number |-> SelectFile(cat, filename).current_version]

\* The ids of the chunk rows the second query reads.
ActiveRows(cat, file_id, version) ==
    {j \in 1..Len(cat.chunks) :
        /\ cat.chunks[j].file_id = file_id
        /\ cat.chunks[j].version_number = version
        /\ cat.chunks[j].status = "active"}

ChunkIndexes(cat, rows) == {cat.chunks[j].chunk_index : j \in rows}

\* The ways to take one row of rows per chunk index of idxs.
RECURSIVE Selections(_, _, _)
Selections(cat, rows, idxs) ==
    IF idxs = {} THEN {<< >>}
    ELSE {(SetMin(idxs) :> j) @@ sel :
            j \in {k \in rows : cat.chunks[k].chunk_index = SetMin(idxs)},
            sel \in Selections(cat, rows, idxs \ {SetMin(idxs)})}

\* SELECT DISTINCT chunk_index, chunk_location, chunk_hash ... GROUP BY
\* chunk_index: one row per chunk_index, taken from any row of its group.
\* Each selection maps the chunk indexes to the id of the row taken.
ChunkSelections(cat, file_id, version) ==
    Selections(cat, ActiveRows(cat, file_id, version),
               ChunkIndexes(cat, ActiveRows(cat, file_id, version)))

NoData == [found |-> FALSE, data |-> << >>]

\* The search for a valid copy of one chunk: the recorded location first,
\* then the file of the same basename in every node directory, in
\* UPLOAD_FOLDERS order; a copy is valid when its hash is the recorded one.
RECURSIVE ScanReplicas(_, _, _, _)
ScanReplicas(d, base, expected_hash, i) ==
    IF i > Len(UPLOAD_FOLDERS)
    THEN NoData
    ELSE IF /\ Exists(d, [node |-> UPLOAD_FOLDERS[i], base |-> base])
            /\ calculate_hash(d[[node |-> UPLOAD_FOLDERS[i], base |-> base]])
                 = expected_hash
         THEN [found |-> TRUE, data |-> d[[node |-> UPLOAD_FOLDERS[i], base |-> base]]]
         ELSE ScanReplicas(d, base, expected_hash, i + 1)

\* The search for a copy if it trusted the recorded location without hashing.
VerifiedChunkUnhashed(d, chunk_location, expected_hash) ==
    IF Exists(d, chunk_location)
    THEN [found |-> TRUE, data |-> d[chunk_location]]
    ELSE ScanReplicas(d, chunk_location.base, expected_hash, 1)

VerifiedChunk(d, chunk_location, expected_hash) ==
    IF Exists(d, chunk_location) /\ calculate_hash(d[chunk_location]) = expected_hash
    THEN [found |-> TRUE, data |-> d[chunk_location]]
    ELSE ScanReplicas(d, chunk_location.base, expected_hash, 1)

\* The reassembly loop over the selected rows in chunk_index order.  ok =
\* FALSE stands for the exception "Chunk i is corrupted or missing" or for a
\* failure of decrypt_and_decompress_data.
RECURSIVE Reassemble(_, _, _, _, _)
RECURSIVE ReassembleChunk(_, _, _, _, _, _)
Reassemble(cat, d, sel, idxs, out) ==
    IF idxs = {}
    THEN [ok |-> TRUE, data |-> out]
    ELSE ReassembleChunk(cat, d, sel, idxs, out,
             VerifiedChunk(d, cat.chunks[sel[SetMin(idxs)]].chunk_location,
                           cat.chunks[sel[SetMin(idxs)]].chunk_hash))

\* One pass of the loop, vc being the result of the search for a valid copy.
ReassembleChunk(cat, d, sel, idxs, out, vc) ==
    IF ~vc.found \/ ~decrypt_and_decompress_data(vc.data).ok
    THEN [ok |-> FALSE, data |-> << >>]
    ELSE Reassemble(cat, d, sel, idxs \ {SetMin(idxs)},
                    out \o decrypt_and_decompress_data(vc.data).data)

DownloadResponse(filename, version, r) ==
    Response("download", filename, version, IF r.ok THEN 200 ELSE 500, r.data)

\* download_file after the first query returned rv: the set of responses the
\* request can get (one per selection of rows by the GROUP BY query).
DownloadResolved(cat, d, filename, version, rv) ==
    IF rv.outcome = "notfound"
    THEN {Response("download", filename, version, 404, << >>)}
    ELSE IF rv.outcome = "error"
    THEN {Response("download", filename, version, 500, << >>)}
    ELSE IF ActiveRows(cat, rv.file_id, rv.version_number) = {}
    THEN {Response("download", filename, version, 404, << >>)}
    ELSE {DownloadResponse(filename, version,
                           Reassemble(cat, d, sel, DOMAIN sel, << >>)) :
            sel \in ChunkSelections(cat, rv.file_id, rv.version_number)}

download_file(cat, d, filename, version) ==
    DownloadResolved(cat, d, filename, version,
                     ResolveVersion(cat, filename, version))

(***************************************************************************)
(* rollback_version (server.py:1757-1811).                                 *)
(***************************************************************************)
\* The first UPDATE if its WHERE clause left out version_number: the active
\* rows of every version of the file are deprecated.
DeprecateRowAnyVersion(r, file_id, current_version) ==
    IF r.file_id = file_id /\ r.status = "active"
    THEN [r EXCEPT !.status = "deprecated"] ELSE r

\* The first UPDATE: the active rows of the current version are deprecated.
DeprecateRow(r, file_id, current_version) ==
    IF r.file_id = file_id /\ r.version_number = current_version /\ r.status = "active"
    THEN [r EXCEPT !.status = "deprecated"] ELSE r

\* The second UPDATE: the deprecated rows of the target version are activated.
ReactivateRow(r, file_id, version) ==
    IF r.file_id = file_id /\ r.version_number = version /\ r.status = "deprecated"
    THEN [r EXCEPT !.status = "active"] ELSE r

\* The chunk rows after the two UPDATE statements of a rollback of file_id
\* from current_version to version.
RollbackChunks(rows, file_id, current_version, version) ==
    [j \in 1..Len(rows) |->
        ReactivateRow(DeprecateRow(rows[j], file_id, current_version),
                      file_id, version)]

\* rollback_version once the join found the row of file_id.
RollbackFile(cat, file_id, version) ==
    IF version = cat.metadata[file_id].current_version
    THEN [status |-> 200, cat |-> cat]
    ELSE [status |-> 200,
          cat |-> [cat EXCEPT
              !.chunks = RollbackChunks(@, file_id,
                                        cat.metadata[file_id].current_version, version),
              !.metadata[file_id].current_version = version]]

\* rollback_version if it took the file of the filename without asking for
\* the Version row of the requested version.
rollback_versionUnchecked(cat, filename, version) ==
    IF FileIds(cat, filename) = {}
    THEN [status |-> 404, cat |-> cat]
    ELSE RollbackFile(cat, SetMin(FileIds(cat, filename)), version)

\* rollback_version: the response status and the catalog it leaves.
rollback_version(cat, filename, version) ==
    IF {i \in FileIds(cat, filename) : HasVersion(cat, i, version)} = {}
    THEN [status |-> 404, cat |-> cat]
    ELSE RollbackFile(cat,
             SetMin({i \in FileIds(cat, filename) : HasVersion(cat, i, version)}),
             version)

(***************************************************************************)
(* archive_file and restore_archived_file (server.py:275-446), which the   *)
(* admin endpoints call with a file id.                                    *)
(***************************************************************************)

\* archive_location: <Node3's directory>/archives/<filename>.archive.  The
\* directory archives is a subdirectory, so get_node_usage does not count
\* its files.
ArchivePath(filename) ==
    [node |-> "archives", base |-> [name |-> filename, idx |-> 0, new |-> FALSE]]

ActiveRowsOfFile(cat, file_id) ==
    {j \in 1..Len(cat.chunks) :
        cat.chunks[j].file_id = file_id /\ cat.chunks[j].status = "active"}

\* The first of the rows in the order of chunk_index, and of row id among
\* the rows of one chunk_index.
MinRow(cat, rows) ==
    CHOOSE j \in rows :
        \A k \in rows :
            \/ cat.chunks[j].chunk_index < cat.chunks[k].chunk_index
            \/ cat.chunks[j].chunk_index = cat.chunks[k].chunk_index /\ j <= k

\* SELECT ... ORDER BY chunk_index: the row ids in that order.
RECURSIVE OrderByIndex(_, _)
OrderByIndex(cat, rows) ==
    IF rows = {} THEN << >>
    ELSE <<MinRow(cat, rows)>> \o OrderByIndex(cat, rows \ {MinRow(cat, rows)})

\* archive_file lines 312-315: the bytes of the chunk files of the rows, one
\* after the other.  ok = FALSE stands for the exception of open() on a
\* missing chunk file; data is what the archive file holds by then.
RECURSIVE ConcatChunks(_, _, _, _)
ConcatChunks(cat, d, order, out) ==
    IF order = << >> THEN [ok |-> TRUE, data |-> out]
    ELSE IF ~Exists(d, cat.chunks[Head(order)].chunk_location)
    THEN [ok |-> FALSE, data |-> out]
    ELSE ConcatChunks(cat, d, Tail(order),
                      out \o d[cat.chunks[Head(order)].chunk_location])

\* archive_file lines 350-354: os.remove of every row's chunk file.
RECURSIVE RemoveChunks(_, _, _)
RemoveChunks(cat, d, order) ==
    IF order = << >> THEN d
    ELSE RemoveChunks(cat,
                      IF Exists(d, cat.chunks[Head(order)].chunk_location)
                      THEN RemoveFile(d, cat.chunks[Head(order)].chunk_location)
                      ELSE d,
                      Tail(order))

ArchiveRow(r, file_id) ==
    IF r.file_id = file_id /\ r.status = "active"
    THEN [r EXCEPT !.status = "archived"] ELSE r

\* archive_file once the archive file is written, cc being what the loop
\* over the chunk files returned.
ArchiveWritten(cat, d, file_id, order, cc) ==
    IF ~cc.ok
    THEN [status |-> 500, cat |-> cat,
          disk |-> WriteFile(d, ArchivePath(cat.metadata[file_id].filename), cc.data)]
    ELSE [status |-> 200,
          cat |-> [cat EXCEPT
              !.archives = Append(@,
                  [file_id |-> file_id,
                   archive_location |-> ArchivePath(cat.metadata[file_id].filename),
                   archive_size |-> Len(cc.data), restore_count |-> 0]),
              !.metadata[file_id].is_archived = 1,
              !.metadata[file_id].storage_tier = "cold",
              !.chunks = [j \in 1..Len(cat.chunks) |-> ArchiveRow(cat.chunks[j], file_id)]],
          disk |-> RemoveChunks(cat,
                       WriteFile(d, ArchivePath(cat.metadata[file_id].filename), cc.data),
                       order)]

\* archive_file once the rows of the active chunks are read.
ArchiveGathered(cat, d, file_id, order) ==
    ArchiveWritten(cat, d, file_id, order, ConcatChunks(cat, d, order, << >>))

\* archive_file: the status the admin endpoint answers, the catalog and the
\* disk.
archive_file(cat, d, file_id) ==
    IF file_id \notin 1..Len(cat.metadata) \/ cat.metadata[file_id].is_archived # 0
    THEN [status |-> 200, cat |-> cat, disk |-> d]
    ELSE ArchiveGathered(cat, d, file_id,
                         OrderByIndex(cat, ActiveRowsOfFile(cat, file_id)))

\* restore_archived_file lines 385-389: the archive in CHUNK_SIZE pieces.
Pieces(data) == [i \in 1..NumChunks(Len(data)) |-> ChunkOf(data, i - 1)]

\* restore_archived_file lines 392-403: each piece is written to the node
\* selected for it, as <filename>_chunk_<i>.  ok = FALSE stands for the
\* exception of select_storage_node.
RECURSIVE RestoreChunks(_, _, _, _, _)
RECURSIVE RestoreChunk(_, _, _, _, _, _)
RestoreChunks(d, filename, pieces, i, new_chunks) ==
    IF i >= Len(pieces)
    THEN [ok |-> TRUE, disk |-> d, chunks |-> new_chunks]
    ELSE RestoreChunk(d, filename, pieces, i, new_chunks,
                      select_storage_node(Len(pieces[i + 1]), d, {}))

RestoreChunk(d, filename, pieces, i, new_chunks, target_node) ==
    IF target_node = NoNode
    THEN [ok |-> FALSE, disk |-> d, chunks |-> new_chunks]
    ELSE RestoreChunks(WriteFile(d, ChunkPath(target_node, filename, i), pieces[i + 1]),
                       filename, pieces, i + 1,
                       Append(new_chunks, ChunkPath(target_node, filename, i)))

RestoredArchive(a, file_id) ==
    IF a.file_id = file_id THEN [a EXCEPT !.restore_count = @ + 1] ELSE a

\* restore_archived_file lines 405-441, rc being what the loop over the
\* pieces returned: the rows are inserted at version 1, each with the hash
\* of the piece the loop variable chunk_data held last.
RestoreWritten(cat, file_id, pieces, rc, ts) ==
    IF ~rc.ok
    THEN [status |-> 500, cat |-> cat, disk |-> rc.disk]
    ELSE [status |-> 200,
          cat |-> [cat EXCEPT
              !.metadata[file_id].is_archived = 0,
              !.metadata[file_id].storage_tier = "hot",
              !.metadata[file_id].last_accessed = {ts},
              !.chunks = @ \o [j \in 1..Len(rc.chunks) |->
                                 ChunkRow(file_id, 1, rc.chunks[j],
                                          calculate_hash(pieces[Len(pieces)]),
                                          "active")],
              !.archives = [j \in 1..Len(cat.archives) |->
                              RestoredArchive(cat.archives[j], file_id)]],
          disk |-> rc.disk]

\* restore_archived_file once the archive file is read.
RestoreRead(cat, d, file_id, pieces, ts) ==
    RestoreWritten(cat, file_id, pieces,
                   RestoreChunks(d, cat.metadata[file_id].filename, pieces, 0, << >>),
                   ts)

ArchiveRowsOf(cat, file_id) ==
    {j \in 1..Len(cat.archives) : cat.archives[j].file_id = file_id}

\* restore_archived_file: the status the admin endpoint answers, the catalog
\* and the disk.  ts is the day of the call.
restore_archived_file(cat, d, file_id, ts) ==
    IF \/ ArchiveRowsOf(cat, file_id) = {}
       \/ cat.metadata[file_id].is_archived # 1
    THEN [status |-> 200, cat |-> cat, disk |-> d]
    ELSE IF ~Exists(d, cat.archives[SetMin(ArchiveRowsOf(cat, file_id))].archive_location)
    THEN [status |-> 500, cat |-> cat, disk |-> d]
    ELSE RestoreRead(cat, d, file_id,
             Pieces(d[cat.archives[SetMin(ArchiveRowsOf(cat, file_id))].archive_location]),
             ts)

(***************************************************************************)
(* State.                                                                  *)
(***************************************************************************)
VARIABLES
    disk,       \* the chunk files of the node directories
    catalog,    \* metadata.db as committed
    resp,       \* the response to the request handled last
    uploads,    \* number of upload requests handled so far
    okUploads,  \* per filename, the number of uploads answered 200
    scen,       \* progress of the scenario upload, upload, rollback, rollback
    faults,     \* number of chunk files lost or damaged by the environment
    proc,       \* per request thread, the upload it is handling and where it is
    temp,       \* the files of the directory temp/, by name
    lock,       \* the thread holding the write lock of metadata.db, 0 for none
    work,       \* metadata.db as the open write transaction sees it
    commitLog,  \* the versions assigned to the uploads, in commit order
    node_heartbeats, \* the dictionary node_heartbeats, in insertion order
    clock,      \* datetime.now() as the monitor reads it, in heartbeat periods
    today,      \* datetime.now() as the catalog records it, in days
    dedup_runs, \* number of runs of manage_deduplication
    scope,      \* the use of get_db_connection a request thread is in
    monitor,    \* where the monitoring thread is in the pass of its loop
    downloads   \* the download requests in progress and the file they reassemble

concVars == <<proc, temp, lock, work, commitLog>>

bgVars == <<node_heartbeats, clock, today, dedup_runs, scope, monitor, downloads>>

vars == <<disk, catalog, resp, uploads, okUploads, scen, faults, concVars, bgVars>>

Procs == 1..NumProcs

NoFile == [id |-> 0, current_version |-> 0]

IdleProc ==
    [pc |-> "idle", filename |-> "", content |-> << >>, u |-> 0, chunks |-> << >>,
     initial_node |-> NoNode, existing_file |-> NoFile, file_id |-> 0,
     version |-> 0, ok |-> FALSE, written |-> {}]

Versions == 1..MaxUploads

\* A connection sqlite3.connect returned, by what was called on it.
OpenConn == [committed |-> FALSE, rolled_back |-> FALSE, closed |-> FALSE]

\* No use of get_db_connection in progress.  conns are the connections the
\* use opened, conn the index of the generator's local conn (0 for None),
\* raised the exception raised inside the with block, error the exception
\* the with statement propagated to the handler.
ScopeIdle ==
    [pc |-> "idle", op |-> "none", filename |-> "", version |-> 0,
     conns |-> << >>, conn |-> 0, retries |-> 0, bodies |-> 0,
     raised |-> "none", error |-> "none", status |-> 0,
     snapshot |-> EmptyCatalog]

\* The monitoring thread between two passes (time.sleep, line 2150).  now is
\* the datetime.now() of the pass, size the number of entries the iteration
\* of node_heartbeats started with, inactive the nodes still to be handled,
\* deleted the nodes the thread has deleted from node_heartbeats so far.
MonitorAsleep ==
    [pc |-> "sleep", now |-> 0, size |-> 0, inactive |-> << >>, deleted |-> {}]

\* No download request in progress.  proc is, per request thread, where it
\* is in download_file, the response its reassembly leads to and the inode
\* it has open; temp_file is temp_downloads/tmp_<filename> ({} when there is
\* no such file), started the number of requests so far and inodes the
\* number of files created so far.
IdleDownload == [pc |-> "idle", filename |-> "", version |-> 0, status |-> 0,
                 data |-> << >>, ino |-> 0]

\* Request threads that handle downloads at the same time, and download
\* requests handled in one behaviour.
NumDownloadProcs == 2
MaxDownloads == 2

DownloadProcs == 1..NumDownloadProcs

NoDownloads ==
    [proc |-> [p \in DownloadProcs |-> IdleDownload], temp_file |-> {},
     started |-> 0, inodes |-> 0]

NoScenario == [phase |-> 0, filename |-> "", v1 |-> << >>, v2 |-> << >>]

\* The scenario of rollback reversibility, followed on the responses: phase 1
\* after an upload that created a file, 2 after the next upload of the same
\* filename, 3 after a rollback of it to 1, 4 after a rollback of it to 2.
\* Downloads are observations and leave the phase; any other request ends
\* the scenario.
ScenStep(s, r) ==
    IF r.op = "download" THEN s
    ELSE IF r.op = "upload" /\ r.status = 200 /\ r.version = 1
    THEN [phase |-> 1, filename |-> r.filename, v1 |-> r.data, v2 |-> << >>]
    ELSE IF /\ s.phase = 1 /\ r.op = "upload" /\ r.status = 200
            /\ r.filename = s.filename /\ r.version = 2
    THEN [s EXCEPT !.phase = 2, !.v2 = r.data]
    ELSE IF /\ s.phase = 2 /\ r.op = "rollback" /\ r.status = 200
            /\ r.filename = s.filename /\ r.version = 1
    THEN [s EXCEPT !.phase = 3]
    ELSE IF /\ s.phase = 3 /\ r.op = "rollback" /\ r.status = 200
            /\ r.filename = s.filename /\ r.version = 2
    THEN [s EXCEPT !.phase = 4]
    ELSE NoScenario

Init ==
    /\ disk = << >>
    /\ catalog = EmptyCatalog
    /\ resp = Response("none", "", NoVersion, 0, << >>)
    /\ uploads = 0
    /\ okUploads = [f \in FileNames |-> 0]
    /\ scen = NoScenario
    /\ faults = 0
    /\ proc = [p \in Procs |-> IdleProc]
    /\ temp = << >>
    /\ lock = 0
    /\ work = EmptyCatalog
    /\ commitLog = << >>
    /\ node_heartbeats = << >>
    /\ clock = 0
    /\ today = 0
    /\ dedup_runs = 0
    /\ scope = ScopeIdle
    /\ monitor = MonitorAsleep
    /\ downloads = NoDownloads

(***************************************************************************)
(* The request handlers, one request at a time.                            *)
(***************************************************************************)
UploadResponse(filename, content, o) ==
    Response("upload", filename, o.version, IF o.ok THEN 200 ELSE 500, content)

\* The handling of POST /upload with a file of the given name and content.
UploadRequest(filename, content) ==
    /\ \E o \in {upload_file(catalog, disk, filename, content, uploads + 1, today)} :
          /\ disk' = o.disk
          /\ catalog' = o.cat
          /\ resp' = UploadResponse(filename, content, o)
          /\ scen' = ScenStep(scen, UploadResponse(filename, content, o))
          /\ okUploads' = IF o.ok THEN [okUploads EXCEPT ![filename] = @ + 1]
                          ELSE okUploads
    /\ uploads' = uploads + 1
    /\ UNCHANGED <<faults, concVars, bgVars>>

\* POST /upload, as one of the MaxUploads upload requests of a behaviour.
Upload(filename, content) ==
    /\ uploads < MaxUploads
    /\ UploadRequest(filename, content)

\* GET /download/<filename>[?version=<version>].
Download(filename, version) ==
    /\ \E r \in download_file(catalog, disk, filename, version) :
          /\ resp' = r
          /\ scen' = ScenStep(scen, r)
    /\ UNCHANGED <<disk, catalog, uploads, okUploads, faults, concVars, bgVars>>

\* POST /rollback/<filename>/<version>.
Rollback(filename, version) ==
    /\ \E rb \in {rollback_version(catalog, filename, version)} :
          /\ catalog' = rb.cat
          /\ resp' = Response("rollback", filename, version, rb.status, << >>)
          /\ scen' = ScenStep(scen,
                 Response("rollback", filename, version, rb.status, << >>))
    /\ UNCHANGED <<disk, uploads, okUploads, faults, concVars, bgVars>>

\* The environment loses one chunk file (a disk fault, an operator's rm).
DeleteChunkFile(path) ==
    /\ faults < MaxFaults
    /\ Exists(disk, path)
    /\ disk' = RemoveFile(disk, path)
    /\ faults' = faults + 1
    /\ resp' = Response("fault", "", NoVersion, 0, << >>)
    /\ scen' = NoScenario
    /\ UNCHANGED <<catalog, uploads, okUploads, concVars, bgVars>>

\* The environment damages one chunk file: its bytes are no longer a token.
CorruptChunkFile(path) ==
    /\ faults < MaxFaults
    /\ Exists(disk, path)
    /\ IsToken(disk[path])
    /\ disk' = WriteFile(disk, path, Tail(disk[path]))
    /\ faults' = faults + 1
    /\ resp' = Response("fault", "", NoVersion, 0, << >>)
    /\ scen' = NoScenario
    /\ UNCHANGED <<catalog, uploads, okUploads, concVars, bgVars>>

\* POST /admin/files/<file_id>/archive.
Archive(file_id) ==
    /\ Len(catalog.archives) < MaxArchives
    /\ \E o \in {archive_file(catalog, disk, file_id)} :
          /\ catalog' = o.cat
          /\ disk' = o.disk
          /\ resp' = Response("archive", "", NoVersion, o.status, << >>)
    /\ scen' = NoScenario
    /\ UNCHANGED <<uploads, okUploads, faults, concVars, bgVars>>

\* POST /admin/files/<file_id>/restore.
Restore(file_id) ==
    /\ \E o \in {restore_archived_file(catalog, disk, file_id, today)} :
          /\ catalog' = o.cat
          /\ disk' = o.disk
          /\ resp' = Response("restore", "", NoVersion, o.status, << >>)
    /\ scen' = NoScenario
    /\ UNCHANGED <<uploads, okUploads, faults, concVars, bgVars>>

Next ==
    \/ \E f \in FileNames, c \in Contents : Upload(f, c)
    \/ \E f \in FileNames, v \in {NoVersion} \cup Versions : Download(f, v)
    \/ \E f \in FileNames, v \in Versions : Rollback(f, v)

Spec == Init /\ [][Next]_vars

\* Clients that only upload and download.
NextUploads ==
    \/ \E f \in FileNames, c \in Contents : Upload(f, c)
    \/ \E f \in FileNames, v \in {NoVersion} \cup Versions : Download(f, v)

SpecUploads == Init /\ [][NextUploads]_vars

\* The service on disks that lose and damage chunk files, with the clients
\* of one file.
FaultFileNames == {"f"}

\* The clients of one file.
NextRollback ==
    \/ \E f \in FaultFileNames, c \in Contents : Upload(f, c)
    \/ \E f \in FaultFileNames, v \in {NoVersion} \cup Versions : Download(f, v)
    \/ \E f \in FaultFileNames, v \in Versions : Rollback(f, v)

SpecRollback == Init /\ [][NextRollback]_vars

NextFault ==
    \/ \E f \in FaultFileNames, c \in Contents : Upload(f, c)
    \/ \E f \in FaultFileNames, v \in {NoVersion} \cup Versions : Download(f, v)
    \/ \E f \in FaultFileNames, v \in Versions : Rollback(f, v)
    \/ \E p \in DOMAIN disk : DeleteChunkFile(p)
    \/ \E p \in DOMAIN disk : CorruptChunkFile(p)

SpecFault == Init /\ [][NextFault]_vars

\* The clients of one file and an administrator who archives and restores.
FileIdsUsed == 1..NumFileIds

NextArchive ==
    \/ \E f \in FaultFileNames, c \in Contents : Upload(f, c)
    \/ \E f \in FaultFileNames, v \in {NoVersion} \cup Versions : Download(f, v)
    \/ \E f \in FaultFileNames, v \in Versions : Rollback(f, v)
    \/ \E i \in FileIdsUsed : Archive(i)
    \/ \E i \in FileIdsUsed : Restore(i)

SpecArchive == Init /\ [][NextArchive]_vars

(***************************************************************************)
(* upload_file step by step, for request threads that run at the same     *)
(* time: each request is served by a thread of its own, and each thread    *)
(* opens a connection of its own to metadata.db.                           *)
(***************************************************************************)

\* temp_path of upload_file, by the name of the file in temp/.
TempPath(filename) == secure_filename(filename)

\* A write transaction as the autocommit mode would publish it.
VisibleAutocommit(committed, working, committing) == working

\* metadata.db as the other connections read it while one connection has
\* written `working` in a transaction: the committed catalog until the
\* transaction commits.
Visible(committed, working, committing) ==
    IF committing THEN working ELSE committed

\* The chunk files a thread wrote at the paths of its local list, each with
\* the bytes written: what proc[p].written records.
WrittenAt(d, chunks) ==
    {[path |-> chunks[j], data |-> d[chunks[j]]] : j \in 1..Len(chunks)}

\* The replica copies replicate_chunk made for the rows a thread inserted:
\* the rows' locations that are not in the thread's local list.
WrittenRows(d, rows, chunks) ==
    {[path |-> rows[j].chunk_location, data |-> d[rows[j].chunk_location]] :
        j \in {k \in 1..Len(rows) :
                 \A i \in 1..Len(chunks) : chunks[i] # rows[k].chunk_location}}

\* uploaded_file.save(temp_path): thread p takes an upload request.
SaveUpload(p, filename, content) ==
    /\ proc[p].pc = "idle"
    /\ uploads < MaxUploads
    /\ uploads' = uploads + 1
    /\ temp' = WriteFile(temp, TempPath(filename), content)
    /\ proc' = [proc EXCEPT ![p] =
                   [IdleProc EXCEPT !.pc = "saved", !.filename = filename,
                                    !.content = content, !.u = uploads + 1]]
    /\ UNCHANGED <<disk, catalog, resp, okUploads, scen, faults, lock, work, commitLog, bgVars>>

\* Lines 1465-1501: thread p reads temp_path (the size, the hash, the
\* CHUNK_SIZE reads) and writes the chunk files.  A missing temp file and a
\* failed node selection raise; the except branch removes the chunk files.
WriteChunkFiles(p) ==
    /\ proc[p].pc = "saved"
    /\ IF ~Exists(temp, TempPath(proc[p].filename))
       THEN /\ proc' = [proc EXCEPT ![p].pc = "finally"]
            /\ disk' = disk
       ELSE \E cp \in {ChunkPhase(disk, secure_filename(proc[p].filename),
                                  temp[TempPath(proc[p].filename)], proc[p].u)} :
               /\ disk' = IF cp.ok THEN cp.disk
                          ELSE CleanupChunks(cp.disk, cp.chunks)
               /\ proc' = [proc EXCEPT
                     ![p].pc = IF cp.ok THEN "chunked" ELSE "finally",
                     ![p].content = temp[TempPath(proc[p].filename)],
                     ![p].chunks = IF cp.ok THEN cp.chunks ELSE << >>,
                     ![p].initial_node = cp.initial_node,
                     ![p].written = WrittenAt(cp.disk, cp.chunks)]
    /\ UNCHANGED <<catalog, resp, uploads, okUploads, scen, faults, temp, lock,
                   work, commitLog, bgVars>>

\* Lines 1504-1523: thread p connects and runs the SELECT, which reads the
\* committed catalog outside any transaction.
SelectExisting(p) ==
    /\ proc[p].pc = "chunked"
    /\ proc' = [proc EXCEPT
          ![p].pc = "selected",
          ![p].existing_file = SelectFile(catalog, proc[p].filename)]
    /\ UNCHANGED <<disk, catalog, resp, uploads, okUploads, scen, faults, temp,
                   lock, work, commitLog, bgVars>>

\* Lines 1530-1564: the first write opens the transaction and takes the
\* write lock; the metadata row and the versions row are written.  The
\* IntegrityError of UNIQUE(file_id, version_number) rolls the transaction
\* back and the except branch removes the chunk files of p's list.
WriteMetadataRows(p) ==
    /\ proc[p].pc = "selected"
    /\ lock = 0
    /\ IF HasVersion(catalog, UploadFileId(catalog, proc[p].existing_file),
                     NewVersion(proc[p].existing_file))
       THEN /\ disk' = CleanupChunks(disk, proc[p].chunks)
            /\ proc' = [proc EXCEPT ![p].pc = "finally"]
            /\ UNCHANGED <<catalog, lock, work>>
       ELSE /\ work' = MetadataStatements(catalog, proc[p].filename, proc[p].content,
                                          proc[p].initial_node, proc[p].existing_file,
                                          today)
            /\ catalog' = Visible(catalog, work', FALSE)
            /\ lock' = p
            /\ proc' = [proc EXCEPT
                  ![p].pc = "metadata",
                  ![p].file_id = UploadFileId(catalog, proc[p].existing_file),
                  ![p].version = NewVersion(proc[p].existing_file)]
            /\ disk' = disk
    /\ UNCHANGED <<resp, uploads, okUploads, scen, faults, temp, commitLog, bgVars>>

\* Lines 1566-1622: the chunk rows, the replicas and their rows, the
\* replicas column and the version_changes row.  A chunk file of p's list
\* that is gone raises: the transaction rolls back.
StoreChunkRows(p) ==
    /\ proc[p].pc = "metadata"
    /\ \E sc \in {StoreChunks(<< >>, disk, proc[p].file_id, proc[p].version,
                              proc[p].chunks)} :
          IF sc.ok
          THEN /\ work' = FinishUploadTxn(work, proc[p].file_id, proc[p].version,
                                          proc[p].existing_file, sc).cat
               /\ catalog' = Visible(catalog, work', FALSE)
               /\ disk' = sc.disk
               /\ proc' = [proc EXCEPT
                     ![p].pc = "stored",
                     ![p].written = @ \cup WrittenRows(sc.disk, sc.rows, proc[p].chunks)]
               /\ lock' = lock
          ELSE /\ work' = EmptyCatalog
               /\ catalog' = catalog
               /\ disk' = CleanupChunks(sc.disk, proc[p].chunks)
               /\ proc' = [proc EXCEPT
                     ![p].pc = "finally", ![p].version = 0,
                     ![p].written = @ \cup WrittenRows(sc.disk, sc.rows, proc[p].chunks)]
               /\ lock' = 0
    /\ UNCHANGED <<resp, uploads, okUploads, scen, faults, temp, commitLog, bgVars>>

\* Line 1624: conn.commit().
CommitUpload(p) ==
    /\ proc[p].pc = "stored"
    /\ catalog' = Visible(catalog, work, TRUE)
    /\ work' = EmptyCatalog
    /\ lock' = 0
    /\ proc' = [proc EXCEPT ![p].pc = "finally", ![p].ok = TRUE]
    /\ okUploads' = [okUploads EXCEPT ![proc[p].filename] = @ + 1]
    /\ commitLog' = Append(commitLog, [filename |-> proc[p].filename,
                                       version |-> proc[p].version])
    /\ UNCHANGED <<disk, resp, uploads, scen, faults, temp, bgVars>>

\* The first write of p finds the write lock taken for DB_TIMEOUT seconds:
\* OperationalError "database is locked".
LockTimeout(p) ==
    /\ proc[p].pc = "selected"
    /\ lock # 0
    /\ disk' = CleanupChunks(disk, proc[p].chunks)
    /\ proc' = [proc EXCEPT ![p].pc = "finally"]
    /\ UNCHANGED <<catalog, resp, uploads, okUploads, scen, faults, temp, lock,
                   work, commitLog, bgVars>>

\* Lines 1626-1652: the response, and the finally branch that removes
\* temp_path.
FinishUpload(p) ==
    /\ proc[p].pc = "finally"
    /\ temp' = IF Exists(temp, TempPath(proc[p].filename))
               THEN RemoveFile(temp, TempPath(proc[p].filename)) ELSE temp
    /\ resp' = Response("upload", proc[p].filename, proc[p].version,
                        IF proc[p].ok THEN 200 ELSE 500, proc[p].content)
    /\ proc' = [proc EXCEPT ![p] = IdleProc]
    /\ UNCHANGED <<disk, catalog, uploads, okUploads, scen, faults, lock, work,
                   commitLog, bgVars>>

\* The filenames the concurrent clients use.
ConcFileNames == {"f"}

NextConc ==
    \/ \E p \in Procs, f \in ConcFileNames, c \in Contents : SaveUpload(p, f, c)
    \/ \E p \in Procs : WriteChunkFiles(p)
    \/ \E p \in Procs : SelectExisting(p)
    \/ \E p \in Procs : WriteMetadataRows(p)
    \/ \E p \in Procs : StoreChunkRows(p)
    \/ \E p \in Procs : CommitUpload(p)
    \/ \E p \in Procs : LockTimeout(p)
    \/ \E p \in Procs : FinishUpload(p)
    \/ \E f \in ConcFileNames : Download(f, NoVersion)

SpecConc == Init /\ [][NextConc]_vars

(***************************************************************************)
(* Heartbeats and the node monitor (server.py:2086-2200, 1094-1135).       *)
(* node_heartbeats is the dictionary as the sequence of its entries        *)
(* [node, last] in insertion order, the order in which the monitor walks   *)
(* it.  The clock counts periods of 20 seconds.                            *)
(***************************************************************************)

\* HEARTBEAT_THRESHOLD (server.py:44): 40 seconds, two periods of the clock.
HEARTBEAT_THRESHOLD == 2

\* The periods of the clock in one behaviour.
MaxClock == 3

TrackedNodes(hb) == {hb[i].node : i \in 1..Len(hb)}

\* heartbeat(): node_heartbeats[node_name] = datetime.now().  An assignment
\* to a key of the dictionary keeps the key's place; a new key goes last.
heartbeat(hb, node_name, now) ==
    IF node_name \in TrackedNodes(hb)
    THEN [i \in 1..Len(hb) |->
             IF hb[i].node = node_name THEN [hb[i] EXCEPT !.last = now] ELSE hb[i]]
    ELSE Append(hb, [node |-> node_name, last |-> now])

\* The test of line 2122 if it took a heartbeat exactly
\* HEARTBEAT_THRESHOLD old for inactive.
IsInactiveAtThreshold(e, now) == now - e.last >= HEARTBEAT_THRESHOLD

\* monitor_nodes lines 2119-2127: the entries whose last heartbeat is more
\* than HEARTBEAT_THRESHOLD old, in the order of the dictionary.
IsInactive(e, now) == now - e.last > HEARTBEAT_THRESHOLD

InactiveNodes(hb, now) == SelectSeq(hb, LAMBDA e : IsInactive(e, now))

\* redistribute_chunks lines 1109-1131 for one row: the first node of
\* UPLOAD_FOLDERS other than failed_node for which the body of the try runs
\* through.  shutil.copy is called when the destination file is absent, and
\* raises when the source file is absent too; then the next node is tried.
\* NoNode: every node raised, the row is left as it is.
RECURSIVE RedistributionTarget(_, _, _, _)
RedistributionTarget(d, chunk_location, failed_node, i) ==
    IF i > Len(UPLOAD_FOLDERS) THEN NoNode
    ELSE IF UPLOAD_FOLDERS[i] = failed_node
    THEN RedistributionTarget(d, chunk_location, failed_node, i + 1)
    ELSE IF \/ Exists(d, [node |-> UPLOAD_FOLDERS[i], base |-> chunk_location.base])
            \/ Exists(d, chunk_location)
    THEN UPLOAD_FOLDERS[i]
    ELSE RedistributionTarget(d, chunk_location, failed_node, i + 1)

\* The copy and the UPDATE of one row, target_node being the node found.
RedistributeRow(st, j, target_node) ==
    IF target_node = NoNode THEN st
    ELSE [cat |-> [st.cat EXCEPT
                      !.chunks[j].chunk_location =
                          [node |-> target_node,
                           base |-> st.cat.chunks[j].chunk_location.base]],
          disk |-> IF Exists(st.disk,
                             [node |-> target_node,
                              base |-> st.cat.chunks[j].chunk_location.base])
                   THEN st.disk
                   ELSE WriteFile(st.disk,
                                  [node |-> target_node,
                                   base |-> st.cat.chunks[j].chunk_location.base],
                                  st.disk[st.cat.chunks[j].chunk_location])]

\* Whether a filename contains the name of the node, letter case ignored.
Mentions(name, node) == name = "node1" /\ node = "Node1"

\* chunk_location LIKE '%<failed_node>%': LIKE ignores letter case, so
\* '%Node1%' matches every path under ./storage_node1, and it matches a
\* path under another directory whose basename contains the node's name.
LikeNode(chunk_location, failed_node) ==
    \/ chunk_location.node = failed_node
    \/ Mentions(chunk_location.base.name, failed_node)

\* The rows the query of redistribute_chunks selects.
SelectedForRedistribution(chunk_location, failed_node) ==
    LikeNode(chunk_location, failed_node)

\* redistribute_chunks lines 1100-1131: the rows whose chunk_location is
\* LIKE '%<failed_node>%', whatever their status, in row order.
RECURSIVE RedistributeRows(_, _, _)
RedistributeRows(st, failed_node, j) ==
    IF j > Len(st.cat.chunks) THEN st
    ELSE IF ~SelectedForRedistribution(st.cat.chunks[j].chunk_location, failed_node)
    THEN RedistributeRows(st, failed_node, j + 1)
    ELSE RedistributeRows(
             RedistributeRow(st, j,
                 RedistributionTarget(st.disk, st.cat.chunks[j].chunk_location,
                                      failed_node, 1)),
             failed_node, j + 1)

redistribute_chunks(cat, d, failed_node) ==
    RedistributeRows([cat |-> cat, disk |-> d], failed_node, 1)

\* handle_node_failure: the two COUNT queries only log.
handle_node_failure(cat, d, node_name) == redistribute_chunks(cat, d, node_name)

\* monitor_nodes lines 2133-2142: failure handling for the inactive nodes,
\* one after the other.  For a node of busy the first query of
\* handle_node_failure finds metadata.db locked and raises: nothing is
\* redistributed for it.
RECURSIVE HandleInactive(_, _, _)
HandleInactive(st, inactive, busy) ==
    IF inactive = << >> THEN st
    ELSE IF Head(inactive).node \in busy
    THEN HandleInactive(st, Tail(inactive), busy)
    ELSE HandleInactive(handle_node_failure(st.cat, st.disk, Head(inactive).node),
                        Tail(inactive), busy)

\* The calls of handle_node_failure of one pass, in order, each with
\* whether it raised.
HandledNodes(hb, now, busy) ==
    [k \in 1..Len(InactiveNodes(hb, now)) |->
        [node |-> InactiveNodes(hb, now)[k].node,
         raised |-> InactiveNodes(hb, now)[k].node \in busy]]

\* One pass of the loop of monitor_nodes: the catalog, the disk and the
\* dictionary it leaves (del node_heartbeats[node] for each inactive node
\* whose handling returned).
monitor_nodes(cat, d, hb, now, busy) ==
    [node_heartbeats |->
        SelectSeq(hb, LAMBDA e : ~IsInactive(e, now) \/ e.node \in busy),
     handled |-> HandledNodes(hb, now, busy)]
    @@ HandleInactive([cat |-> cat, disk |-> d], InactiveNodes(hb, now), busy)

\* POST /heartbeat {node_name}.
Heartbeat(node_name) ==
    /\ node_heartbeats' = heartbeat(node_heartbeats, node_name, clock)
    /\ resp' = Response("heartbeat", "", NoVersion, 200, << >>)
    /\ scen' = NoScenario
    /\ UNCHANGED <<disk, catalog, uploads, okUploads, faults, concVars, clock, today,
                   dedup_runs, scope, monitor, downloads>>

\* Twenty seconds pass.
Tick ==
    /\ clock < MaxClock
    /\ clock' = clock + 1
    /\ resp' = Response("tick", "", NoVersion, 0, << >>)
    /\ scen' = NoScenario
    /\ UNCHANGED <<disk, catalog, uploads, okUploads, faults, concVars,
                   node_heartbeats, today, dedup_runs, scope, monitor, downloads>>

\* The monitoring thread runs one pass of its loop; busy are the inactive
\* nodes whose handling finds the database locked.  The response records
\* the calls of handle_node_failure the pass made.
MonitorPass ==
    /\ \E busy \in SUBSET TrackedNodes(InactiveNodes(node_heartbeats, clock)) :
       \E o \in {monitor_nodes(catalog, disk, node_heartbeats, clock, busy)} :
          /\ catalog' = o.cat
          /\ disk' = o.disk
          /\ node_heartbeats' = o.node_heartbeats
          /\ resp' = Response("monitor", "", NoVersion, 0, o.handled)
    /\ scen' = NoScenario
    /\ UNCHANGED <<uploads, okUploads, faults, concVars, clock, today, dedup_runs, scope, monitor, downloads>>

\* The clients of one file, an administrator who archives, the heartbeat
\* emitters and the monitor.
NextMonitor ==
    \/ \E f \in FaultFileNames, c \in Contents : Upload(f, c)
    \/ \E i \in FileIdsUsed : Archive(i)
    \/ \E n \in NodeNames : Heartbeat(n)
    \/ Tick
    \/ MonitorPass

SpecMonitor == Init /\ [][NextMonitor]_vars

(***************************************************************************)
(* The storage tier scan (server.py:59-161).                               *)
(***************************************************************************)

\* The columns of table metadata (db_setup.py:53-75).
MetadataColumns ==
    {"id", "filename", "current_version", "size", "compressed_size",
     "compression_ratio", "upload_timestamp", "location", "replicas",
     "storage_tier", "last_accessed", "access_count", "retention_policy",
     "is_archived", "archive_date", "content_hash", "deduplication_ref"}

\* The thresholds of manage_storage_tiers (server.py:90, 91, 96, 101).
HotIdleDays == 30
HotAccessLimit == 10
WarmIdleDays == 90
ColdIdleDays == 180

\* The days that pass in one behaviour, and the steps in which they pass.
MaxDays == 62
DaySteps == {30, 31}

\* The value of a nullable column that is not NULL.
ValueOf(column) == CHOOSE x \in column : TRUE

\* manage_storage_tiers lines 76-79: the whole days since
\* last_accessed or upload_timestamp.
DaysSinceAccess(file, now) ==
    now - (IF file.last_accessed # {} THEN ValueOf(file.last_accessed)
           ELSE file.upload_timestamp)

\* manage_storage_tiers lines 88-102: what the scan decides for a file row.
TierDecision(file, now) ==
    IF /\ file.storage_tier = "hot"
       /\ DaysSinceAccess(file, now) > HotIdleDays
       /\ file.access_count < HotAccessLimit
    THEN "warm"
    ELSE IF file.storage_tier = "warm" /\ DaysSinceAccess(file, now) > WarmIdleDays
    THEN "cold"
    ELSE IF file.storage_tier = "cold" /\ DaysSinceAccess(file, now) > ColdIdleDays
    THEN "archive"
    ELSE "none"

\* move_to_storage_tier: its first statement is UPDATE metadata SET
\* storage_tier = ?, last_modified = ?; a column the table does not have
\* makes the statement raise OperationalError, which the function re-raises
\* (ok = FALSE).  Past that statement the tier is set and each chunk is
\* rewritten through encrypt_and_compress_data(data, compression_level=...);
\* that function takes no such argument, the TypeError is caught per chunk
\* and the chunk files stay as they are.
move_to_storage_tier(cat, d, file_id, new_tier) ==
    IF "last_modified" \notin MetadataColumns
    THEN [ok |-> FALSE, cat |-> cat, disk |-> d]
    ELSE [ok |-> TRUE, cat |-> [cat EXCEPT !.metadata[file_id].storage_tier = new_tier],
          disk |-> d]

\* The files of the first query of the scan: the ids of the rows with
\* is_archived = 0, in row order.
ScannedFiles(cat) ==
    SelectSeq([i \in 1..Len(cat.metadata) |-> i],
              LAMBDA i : cat.metadata[i].is_archived = 0)

\* manage_storage_tiers, the loop over the rows `snapshot` that the first
\* query fetched.  An exception of move_to_storage_tier or archive_file leaves
\* the loop: the scan ends there and the thread sleeps.
RECURSIVE TierScanFiles(_, _, _, _)
TierScanStep(st, snapshot, files, now, decision) ==
    IF decision = "none" THEN [ok |-> TRUE, cat |-> st.cat, disk |-> st.disk]
    ELSE IF decision = "archive"
    THEN [ok |-> archive_file(st.cat, st.disk, Head(files)).status = 200,
          cat |-> archive_file(st.cat, st.disk, Head(files)).cat,
          disk |-> archive_file(st.cat, st.disk, Head(files)).disk]
    ELSE move_to_storage_tier(st.cat, st.disk, Head(files), decision)

TierScanNext(st, snapshot, files, now) ==
    IF ~st.ok THEN st ELSE TierScanFiles(st, snapshot, Tail(files), now)

TierScanFiles(st, snapshot, files, now) ==
    IF files = << >> THEN st
    ELSE TierScanNext(
             TierScanStep(st, snapshot, files, now,
                          TierDecision(snapshot.metadata[Head(files)], now)),
             snapshot, files, now)

\* One pass of the loop of manage_storage_tiers.
manage_storage_tiers(cat, d, now) ==
    TierScanFiles([ok |-> TRUE, cat |-> cat, disk |-> d], cat, ScannedFiles(cat), now)

\* The files the loop of manage_storage_tiers reaches, in order: the rows up
\* to the first one whose move_to_storage_tier or archive_file raised.
RECURSIVE TierScanReached(_, _, _, _)
TierScanReached(st, snapshot, files, now) ==
    IF files = << >> THEN << >>
    ELSE <<Head(files)>> \o
         (IF ~TierScanStep(st, snapshot, files, now,
                           TierDecision(snapshot.metadata[Head(files)], now)).ok
          THEN << >>
          ELSE TierScanReached(
                   TierScanStep(st, snapshot, files, now,
                                TierDecision(snapshot.metadata[Head(files)], now)),
                   snapshot, Tail(files), now))

\* The tier thread runs one pass of its loop.  The response records the
\* files the loop reached.
TierScan ==
    /\ \E o \in {manage_storage_tiers(catalog, disk, today)} :
          /\ catalog' = o.cat
          /\ disk' = o.disk
    /\ resp' = Response("tiers", "", NoVersion, 0,
                        TierScanReached([ok |-> TRUE, cat |-> catalog, disk |-> disk],
                                        catalog, ScannedFiles(catalog), today))
    /\ scen' = NoScenario
    /\ UNCHANGED <<uploads, okUploads, faults, concVars, bgVars>>

\* Days pass.
PassDays(n) ==
    /\ today + n <= MaxDays
    /\ today' = today + n
    /\ resp' = Response("days", "", NoVersion, 0, << >>)
    /\ scen' = NoScenario
    /\ UNCHANGED <<disk, catalog, uploads, okUploads, faults, concVars,
                   node_heartbeats, clock, dedup_runs, scope, monitor, downloads>>

\* The clients of one file, an administrator who archives and restores, and
\* the tier thread, over the days.
NextTiers ==
    \/ \E f \in FaultFileNames, c \in Contents : Upload(f, c)
    \/ \E i \in FileIdsUsed : Archive(i)
    \/ \E i \in FileIdsUsed : Restore(i)
    \/ \E n \in DaySteps : PassDays(n)
    \/ TierScan

SpecTiers == Init /\ [][NextTiers]_vars

(***************************************************************************)
(* manage_deduplication (server.py:163-206), which the deduplication       *)
(* thread runs once after the start of the server.                         *)
(***************************************************************************)

\* The ids of the File rows whose content_hash is h.
FilesWithHash(cat, h) ==
    {i \in 1..Len(cat.metadata) : cat.metadata[i].content_hash = {h}}

\* The first query: the content hashes that are not NULL and that more than
\* one File row has.
DuplicateHashes(cat) ==
    {h \in UNION {cat.metadata[i].content_hash : i \in 1..Len(cat.metadata)} :
        Cardinality(FilesWithHash(cat, h)) > 1}

\* file_ids[1:] of a group: every id of the group but the first.
SecondaryIds(cat, h) == FilesWithHash(cat, h) \ {SetMin(FilesWithHash(cat, h))}

\* The sizes of the File rows ids, added up.
RECURSIVE SizesOf(_, _)
SizesOf(cat, ids) ==
    IF ids = {} THEN 0
    ELSE cat.metadata[SetMin(ids)].size + SizesOf(cat, ids \ {SetMin(ids)})

\* UPDATE metadata SET deduplication_ref = primary_id WHERE id = secondary_id.
DeduplicatedFile(cat, i) ==
    IF \E h \in DuplicateHashes(cat) : i \in SecondaryIds(cat, h)
    THEN [cat.metadata[i] EXCEPT
             !.deduplication_ref =
                 {SetMin(FilesWithHash(cat, ValueOf(cat.metadata[i].content_hash)))}]
    ELSE cat.metadata[i]

\* UPDATE deduplication SET reference_count = reference_count + 1,
\* total_space_saved = total_space_saved + size WHERE content_hash = ?, once
\* per secondary id: the statement changes the row of that hash if there is
\* one and inserts none.
DeduplicationRow(cat, row) ==
    IF row.content_hash \in DuplicateHashes(cat)
    THEN [row EXCEPT
             !.reference_count = @ + Cardinality(SecondaryIds(cat, row.content_hash)),
             !.total_space_saved = @ + SizesOf(cat, SecondaryIds(cat, row.content_hash))]
    ELSE row

manage_deduplication(cat) ==
    [cat EXCEPT
        !.metadata = [i \in 1..Len(cat.metadata) |-> DeduplicatedFile(cat, i)],
        !.deduplication = {DeduplicationRow(cat, row) : row \in cat.deduplication}]

\* The deduplication thread runs manage_deduplication.
ManageDeduplication ==
    /\ dedup_runs = 0
    /\ dedup_runs' = 1
    /\ catalog' = manage_deduplication(catalog)
    /\ resp' = Response("dedup", "", NoVersion, 0, << >>)
    /\ scen' = NoScenario
    /\ UNCHANGED <<disk, uploads, okUploads, faults, concVars, node_heartbeats, clock,
                   today, scope, monitor, downloads>>

\* Clients that upload and download, and the deduplication thread.
NextDedup ==
    \/ \E f \in FileNames, c \in Contents : Upload(f, c)
    \/ \E f \in FileNames : Download(f, NoVersion)
    \/ ManageDeduplication

SpecDedup == Init /\ [][NextDedup]_vars

(***************************************************************************)
(* get_db_connection (server.py:952-976): the generator behind            *)
(* `with get_db_connection() as conn:`, step by step, for one request      *)
(* thread that runs rollback_version or the queries of download_file while *)
(* other threads upload.  contextlib drives the generator: it runs it to   *)
(* its yield on entry; on exit it resumes it (normal exit) or throws the   *)
(* body's exception into it at the yield.                                  *)
(***************************************************************************)
MAX_RETRIES == 3

\* The handlers that run their queries in the scope.
ScopeOps == {"rollback", "download"}

\* The body of the with block of rollback_version (lines 1760-1808) and of
\* download_file (lines 1922-1958) on the committed catalog.  The first
\* UPDATE of a rollback waits for the write lock; held by an upload thread
\* for DB_TIMEOUT seconds it raises OperationalError.  rollback_version
\* commits itself (line 1802).  result['current_version'] of a versioned
\* download raises IndexError.
ScopeBodyOutcome(op, cat, filename, version, lk) ==
    IF op = "rollback"
    THEN IF rollback_version(cat, filename, version).cat # cat /\ lk # 0
         THEN [raised |-> "OperationalError", cat |-> cat, status |-> 0]
         ELSE [raised |-> "none",
               cat |-> rollback_version(cat, filename, version).cat,
               status |-> rollback_version(cat, filename, version).status]
    ELSE IF ResolveVersion(cat, filename, version).outcome = "error"
         THEN [raised |-> "IndexError", cat |-> cat, status |-> 0]
         ELSE [raised |-> "none", cat |-> cat, status |-> 0]

\* Where the generator continues when the with block is left: after the
\* yield on a normal exit, in the handler of the inner try for an
\* OperationalError, in the handler of the outer try for another exception.
AfterYield(raised) ==
    IF raised = "none" THEN "commit"
    ELSE IF raised = "OperationalError" THEN "retry" ELSE "except"

\* Lines 955-962: conn = None, retries = 0, the first pass of the loop up to
\* the yield.
ScopeEnter(op, filename, version) ==
    /\ scope.pc \in {"idle", "done"}
    /\ scope' = [ScopeIdle EXCEPT !.pc = "body", !.op = op,
                                  !.filename = filename, !.version = version,
                                  !.conns = <<OpenConn>>, !.conn = 1]
    /\ UNCHANGED <<disk, catalog, resp, uploads, okUploads, scen, faults, concVars,
                   node_heartbeats, clock, today, dedup_runs, monitor, downloads>>

\* The with block runs.
ScopeBody ==
    /\ scope.pc = "body"
    /\ \E b \in {ScopeBodyOutcome(scope.op, catalog, scope.filename,
                                  scope.version, lock)} :
          /\ catalog' = b.cat
          /\ scope' = [scope EXCEPT !.bodies = @ + 1, !.raised = b.raised,
                                    !.status = b.status, !.snapshot = catalog,
                                    !.pc = AfterYield(b.raised)]
    /\ UNCHANGED <<disk, resp, uploads, okUploads, scen, faults, concVars,
                   node_heartbeats, clock, today, dedup_runs, monitor, downloads>>

\* Lines 963-964: conn.commit() and break; the generator goes on to the
\* finally clause.
ScopeCommit ==
    /\ scope.pc = "commit"
    /\ scope' = [scope EXCEPT !.conns[scope.conn].committed = TRUE,
                              !.pc = "finally"]
    /\ UNCHANGED <<disk, catalog, resp, uploads, okUploads, scen, faults, concVars,
                   node_heartbeats, clock, today, dedup_runs, monitor, downloads>>

\* Lines 965-969 and the next pass of the loop: retries += 1; at
\* MAX_RETRIES the error is raised again, otherwise after the sleep the
\* loop connects anew, rebinding conn, and yields a second time.  contextlib
\* had thrown the exception into the generator and expects it to end: on
\* the yield it raises RuntimeError("generator didn't stop after throw()")
\* to the handler, and the generator is closed at that yield, which runs
\* its finally clause.
ScopeRetry ==
    /\ scope.pc = "retry"
    /\ scope' = IF scope.retries + 1 = MAX_RETRIES
                THEN [scope EXCEPT !.retries = @ + 1, !.pc = "except"]
                ELSE [scope EXCEPT !.retries = @ + 1,
                                   !.conns = Append(@, OpenConn),
                                   !.conn = Len(scope.conns) + 1,
                                   !.error = "RuntimeError",
                                   !.pc = "finally"]
    /\ UNCHANGED <<disk, catalog, resp, uploads, okUploads, scen, faults, concVars,
                   node_heartbeats, clock, today, dedup_runs, monitor, downloads>>

\* Lines 970-973: conn.rollback() and raise.
ScopeExcept ==
    /\ scope.pc = "except"
    /\ scope' = [scope EXCEPT !.conns[scope.conn].rolled_back = TRUE,
                              !.error = scope.raised,
                              !.pc = "finally"]
    /\ UNCHANGED <<disk, catalog, resp, uploads, okUploads, scen, faults, concVars,
                   node_heartbeats, clock, today, dedup_runs, monitor, downloads>>

\* The responses of the handler once the with statement is left: 500 from
\* its except branch for an error, else the response of rollback_version,
\* or of download_file reading the chunk files of the rows it queried.
ScopeResponses(s, d) ==
    IF s.error # "none"
    THEN {Response(s.op, s.filename, s.version, 500, << >>)}
    ELSE IF s.op = "rollback"
    THEN {Response(s.op, s.filename, s.version, s.status, << >>)}
    ELSE DownloadResolved(s.snapshot, d, s.filename, s.version,
                          ResolveVersion(s.snapshot, s.filename, s.version))

\* Lines 974-976: conn.close() on the connection conn is bound to, and the
\* handler's response.
ScopeFinally ==
    /\ scope.pc = "finally"
    /\ scope' = [scope EXCEPT !.conns[scope.conn].closed = TRUE, !.pc = "done",
                              !.snapshot = EmptyCatalog]
    /\ resp' \in ScopeResponses(scope, disk)
    /\ UNCHANGED <<disk, catalog, uploads, okUploads, scen, faults, concVars,
                   node_heartbeats, clock, today, dedup_runs, monitor, downloads>>

\* A connection object nothing refers to any more is freed by the
\* interpreter, which closes its database handle; no rollback() or close()
\* of the program is involved.
ScopeCollect(i) ==
    /\ scope.pc = "done"
    /\ i \in 1..Len(scope.conns)
    /\ i # scope.conn
    /\ ~scope.conns[i].closed
    /\ scope' = [scope EXCEPT !.conns[i].closed = TRUE]
    /\ UNCHANGED <<disk, catalog, resp, uploads, okUploads, scen, faults, concVars,
                   node_heartbeats, clock, today, dedup_runs, monitor, downloads>>

\* The upload threads that run beside the thread using the scope, and the
\* version parameters that thread sends.
ScopeProcs == {1}
ScopeVersions == {NoVersion, 1}

\* An upload thread, and a thread that rolls back and downloads through the
\* scope.  The upload thread never finds the write lock taken: the body of
\* a rollback takes and releases it in one step.
NextScope ==
    \/ \E p \in ScopeProcs, f \in ConcFileNames, c \in Contents : SaveUpload(p, f, c)
    \/ \E p \in ScopeProcs : WriteChunkFiles(p)
    \/ \E p \in ScopeProcs : SelectExisting(p)
    \/ \E p \in ScopeProcs : WriteMetadataRows(p)
    \/ \E p \in ScopeProcs : StoreChunkRows(p)
    \/ \E p \in ScopeProcs : CommitUpload(p)
    \/ \E p \in ScopeProcs : FinishUpload(p)
    \/ \E op \in ScopeOps, f \in ConcFileNames, v \in ScopeVersions :
          ScopeEnter(op, f, v)
    \/ ScopeBody
    \/ ScopeCommit
    \/ ScopeRetry
    \/ ScopeExcept
    \/ ScopeFinally
    \/ \E i \in 1..MAX_RETRIES : ScopeCollect(i)

SpecScope == Init /\ [][NextScope]_vars

(***************************************************************************)
(* The nodes the attempts of replicate_chunk select (server.py:1152-1178). *)
(***************************************************************************)

\* The nodes select_storage_node returned to the remaining attempts of the
\* loop of replicate_chunk, in order, NoNode for an attempt whose selection
\* raised.  The disk and the exclusion set evolve as in ReplicaAttempt.
RECURSIVE ReplicaTargets(_, _, _, _)
RECURSIVE ReplicaTargetsFrom(_, _, _, _, _)
ReplicaTargets(d, chunk_path, excluded_nodes, attempts) ==
    IF attempts = 0 THEN << >>
    ELSE ReplicaTargetsFrom(d, chunk_path, excluded_nodes, attempts,
             select_storage_node(PayloadSize(d[chunk_path]), d, excluded_nodes))

ReplicaTargetsFrom(d, chunk_path, excluded_nodes, attempts, replica_node) ==
    <<replica_node>> \o
    (IF \/ replica_node = NoNode
        \/ Exists(d, [node |-> replica_node, base |-> chunk_path.base])
     THEN ReplicaTargets(d, chunk_path, excluded_nodes, attempts - 1)
     ELSE ReplicaTargets(
              WriteFile(d, [node |-> replica_node, base |-> chunk_path.base],
                        d[chunk_path]),
              chunk_path, excluded_nodes \cup {replica_node}, attempts - 1))

(***************************************************************************)
(* Uploads of two files beside the heartbeats and the node monitor.        *)
(***************************************************************************)
\* The filenames of the clients whose files fill the nodes.
CapacityFileNames == {"f", "node1"}

\* The contents they upload: files of two chunks.
CapacityContents == {<<8, 9, 7>>}

NextCapacity ==
    \/ \E f \in CapacityFileNames, c \in CapacityContents : Upload(f, c)
    \/ \E n \in NodeNames : Heartbeat(n)
    \/ Tick
    \/ MonitorPass

SpecCapacity == Init /\ [][NextCapacity]_vars


(***************************************************************************)
(* The pass of monitor_nodes statement by statement, as the monitoring     *)
(* thread interleaves with the request threads: neither heartbeat nor      *)
(* monitor_nodes takes a lock around node_heartbeats.                      *)
(***************************************************************************)

\* monitor_nodes lines 2110-2119: the pass reads datetime.now() and starts
\* to iterate node_heartbeats.items().
MonitorIterStart ==
    /\ monitor.pc = "sleep"
    /\ monitor' = [monitor EXCEPT !.pc = "iterate", !.now = clock,
                                   !.size = Len(node_heartbeats)]
    /\ resp' = Response("iterate", "", NoVersion, 200, << >>)
    /\ UNCHANGED <<disk, catalog, uploads, okUploads, scen, faults, concVars,
                   node_heartbeats, clock, today, dedup_runs, scope, downloads>>

\* monitor_nodes lines 2119-2127, 2147-2150: the iteration ends.  The dict
\* iterator raises RuntimeError when the dictionary changed size since the
\* iteration began; the loop logs it and sleeps.  Otherwise the nodes whose
\* heartbeat is older than the threshold are collected.
MonitorIterEnd ==
    /\ monitor.pc = "iterate"
    /\ \E inactive \in {InactiveNodes(node_heartbeats, monitor.now)} :
          IF Len(node_heartbeats) # monitor.size
          THEN /\ monitor' = [monitor EXCEPT !.pc = "sleep"]
               /\ resp' = Response("scan", "", NoVersion, 500, << >>)
          ELSE /\ monitor' = [monitor EXCEPT
                     !.pc = IF inactive = << >> THEN "sleep" ELSE "handle",
                     !.inactive = [k \in 1..Len(inactive) |-> inactive[k].node]]
               /\ resp' = Response("scan", "", NoVersion, 200, << >>)
    /\ UNCHANGED <<disk, catalog, uploads, okUploads, scen, faults, concVars,
                   node_heartbeats, clock, today, dedup_runs, scope, downloads>>

\* monitor_nodes lines 2133-2142: handle_node_failure for the next inactive
\* node.  When it raises the del of line 2139 is skipped.
MonitorHandle ==
    /\ monitor.pc = "handle"
    /\ \E raised \in BOOLEAN :
          IF raised
          THEN /\ monitor' = [monitor EXCEPT
                     !.pc = IF Tail(monitor.inactive) = << >> THEN "sleep" ELSE "handle",
                     !.inactive = Tail(@)]
               /\ resp' = Response("handle", "", NoVersion, 500, << >>)
               /\ UNCHANGED <<disk, catalog>>
          ELSE \E o \in {handle_node_failure(catalog, disk, Head(monitor.inactive))} :
                  /\ catalog' = o.cat
                  /\ disk' = o.disk
                  /\ monitor' = [monitor EXCEPT !.pc = "del"]
                  /\ resp' = Response("handle", "", NoVersion, 200, << >>)
    /\ UNCHANGED <<uploads, okUploads, scen, faults, concVars,
                   node_heartbeats, clock, today, dedup_runs, scope, downloads>>

\* monitor_nodes line 2139: del node_heartbeats[node].
MonitorDel ==
    /\ monitor.pc = "del"
    /\ node_heartbeats' = SelectSeq(node_heartbeats,
                                    LAMBDA e : e.node # Head(monitor.inactive))
    /\ monitor' = [monitor EXCEPT
          !.pc = IF Tail(monitor.inactive) = << >> THEN "sleep" ELSE "handle",
          !.inactive = Tail(@),
          !.deleted = @ \cup {Head(monitor.inactive)}]
    /\ resp' = Response("del", "", NoVersion, 200, << >>)
    /\ UNCHANGED <<disk, catalog, uploads, okUploads, scen, faults, concVars,
                   clock, today, dedup_runs, scope, downloads>>

\* The uploads, the heartbeats and the monitoring thread, interleaved
\* statement by statement.
NextMonitorSteps ==
    \/ \E content \in CapacityContents : Upload("f", content)
    \/ \E n \in NodeNames : Heartbeat(n)
    \/ Tick
    \/ MonitorIterStart
    \/ MonitorIterEnd
    \/ MonitorHandle
    \/ MonitorDel

SpecMonitorSteps == Init /\ [][NextMonitorSteps]_vars


(***************************************************************************)
(* apply_retention_policy (server.py:208-273).  No statement of server.py  *)
(* calls it or writes metadata.retention_policy: the policy of a file is   *)
(* what an administrator wrote into the database.                          *)
(***************************************************************************)

\* The rows of table retention_policies: the one db_setup.py inserts
\* (lines 236-241) and one that keeps two versions.
RetentionPolicies ==
    {[policy_name |-> "default", min_versions |-> 1, retention_period_days |-> 365],
     [policy_name |-> "keep2", min_versions |-> 2, retention_period_days |-> 365]}

\* The join of lines 215-220 returned no row.
NoPolicy == [policy_name |-> "", min_versions |-> 0, retention_period_days |-> 0]

\* Lines 227-234: the versions rows of the file, ORDER BY version_number DESC.
RECURSIVE VersionsDesc(_)
VersionsDesc(rows) ==
    IF rows = {} THEN << >>
    ELSE LET top == CHOOSE v \in rows :
                        \A w \in rows : w.version_number <= v.version_number
         IN  <<top>> \o VersionsDesc(rows \ {top})

\* Lines 239-260: the positions, counted from 0, of versions_to_keep.
VersionsToKeep(versions, policy, now) ==
    {i \in 0..(Len(versions) - 1) :
        \/ i >= Len(versions) - policy.min_versions
        \/ now - versions[i + 1].timestamp <= policy.retention_period_days
        \/ versions[i + 1].version_number = versions[1].version_number}

\* Lines 262-269: the version numbers whose chunk rows are set to
\* 'deprecated'.
VersionsRemoved(versions, policy, now) ==
    {versions[i + 1].version_number :
        i \in (0..(Len(versions) - 1)) \ VersionsToKeep(versions, policy, now)}

\* apply_retention_policy: the catalog it leaves, policy being the row the
\* join returned for the file and now the day of the call.
apply_retention_policy(cat, file_id, policy, now) ==
    LET versions == VersionsDesc({v \in cat.versions : v.file_id = file_id}) IN
    IF policy = NoPolicy \/ file_id \notin 1..Len(cat.metadata)
    THEN cat
    ELSE IF Len(versions) <= policy.min_versions
    THEN cat
    ELSE [cat EXCEPT !.chunks =
            [j \in 1..Len(cat.chunks) |->
                IF /\ cat.chunks[j].file_id = file_id
                   /\ cat.chunks[j].version_number
                        \in VersionsRemoved(versions, policy, now)
                THEN [cat.chunks[j] EXCEPT !.status = "deprecated"]
                ELSE cat.chunks[j]]]

\* A call of apply_retention_policy(file_id) for a file with that policy.
ApplyRetention(file_id, policy) ==
    /\ catalog' = apply_retention_policy(catalog, file_id, policy, today)
    /\ resp' = Response("retention", policy.policy_name, NoVersion, file_id, << >>)
    /\ scen' = NoScenario
    /\ UNCHANGED <<disk, uploads, okUploads, faults, concVars, bgVars>>

\* The uploads of one behaviour with retention, and the days that pass in
\* it, in steps of more than a retention period.
RetentionUploads == 4
RetentionStep == 366
MaxRetentionDays == 732

\* POST /upload of file "f", as one of RetentionUploads requests.
RetentionUpload(content) ==
    /\ uploads < RetentionUploads
    /\ UploadRequest("f", content)

\* More than retention_period_days pass.
PassRetentionPeriod ==
    /\ today + RetentionStep <= MaxRetentionDays
    /\ today' = today + RetentionStep
    /\ resp' = Response("days", "", NoVersion, 0, << >>)
    /\ scen' = NoScenario
    /\ UNCHANGED <<disk, catalog, uploads, okUploads, faults, concVars,
                   node_heartbeats, clock, dedup_runs, scope, monitor, downloads>>

\* The clients of one file over the years, and the retention of its
\* versions.
NextRetention ==
    \/ \E c \in CapacityContents : RetentionUpload(c)
    \/ \E v \in Versions : Rollback("f", v)
    \/ PassRetentionPeriod
    \/ \E i \in FileIdsUsed, policy \in RetentionPolicies \cup {NoPolicy} :
          ApplyRetention(i, policy)

SpecRetention == Init /\ [][NextRetention]_vars


(***************************************************************************)
(* The consistency tracking of server.py:1000-1092.  No statement of       *)
(* server.py calls these functions; they are modelled on the inputs a      *)
(* caller holds after an upload: a file, one of its versions, a list of    *)
(* nodes and the chunk locations the catalog records for the version.      *)
(***************************************************************************)

\* sync_version_to_node lines 1041-1061, one chunk location after the
\* other: copy the chunk to the node if no file of that name is there, then
\* compare the hashes of the two files.  ok = FALSE stands for return False,
\* the exception of a missing source included (lines 1064-1066).
RECURSIVE sync_version_to_node(_, _, _)
sync_version_to_node(d, node, chunk_locations) ==
    IF chunk_locations = << >> THEN [ok |-> TRUE, disk |-> d]
    ELSE LET chunk_location == Head(chunk_locations)
             target_path == [node |-> node, base |-> chunk_location.base]
             copied == IF Exists(d, target_path) THEN d
                       ELSE WriteFile(d, target_path, d[chunk_location])
         IN  IF ~Exists(d, chunk_location)
             THEN [ok |-> FALSE, disk |-> d]
             ELSE IF calculate_hash(copied[chunk_location])
                        # calculate_hash(copied[target_path])
             THEN [ok |-> FALSE, disk |-> copied]
             ELSE sync_version_to_node(copied, node, Tail(chunk_locations))

\* The tasks the executor runs, one per node (lines 1071-1074): what each
\* returned and the disk they leave.  Each task writes to the directory of
\* its own node only.
RECURSIVE SyncTasks(_, _, _, _)
SyncTasks(d, nodes, chunk_locations, results) ==
    IF nodes = << >> THEN [results |-> results, disk |-> d]
    ELSE SyncTasks(sync_version_to_node(d, Head(nodes), chunk_locations).disk,
                   Tail(nodes), chunk_locations,
                   Append(results,
                          sync_version_to_node(d, Head(nodes), chunk_locations).ok))

\* update_consistency_status lines 1029-1034: INSERT OR REPLACE on
\* UNIQUE(file_id, version_number, node_name).
update_consistency_status(rows, file_id, version, node, status) ==
    {r \in rows : ~(/\ r.file_id = file_id
                    /\ r.version_number = version
                    /\ r.node_name = node)}
    \cup {[file_id |-> file_id, version_number |-> version, node_name |-> node,
           status |-> status]}

\* ensure_version_consistency lines 1077-1090: the futures in the order
\* as_completed yields them; the first task that failed ends the loop with
\* return False.
RECURSIVE RecordSyncs(_, _, _, _, _, _)
RecordSyncs(rows, file_id, version, nodes, results, order) ==
    IF order = << >> THEN [result |-> TRUE, rows |-> rows]
    ELSE IF ~results[Head(order)]
    THEN [result |-> FALSE,
          rows |-> update_consistency_status(rows, file_id, version,
                                             nodes[Head(order)], "failed")]
    ELSE RecordSyncs(update_consistency_status(rows, file_id, version,
                                               nodes[Head(order)], "synced"),
                     file_id, version, nodes, results, Tail(order))

\* ensure_version_consistency: what it returns, the catalog and the disk it
\* leaves, order being the order in which the tasks complete.
ensure_version_consistency(cat, d, file_id, version, nodes, chunk_locations, order) ==
    LET tasks == SyncTasks(d, nodes, chunk_locations, << >>)
        rec == RecordSyncs(cat.consistency_status, file_id, version, nodes,
                           tasks.results, order)
    IN  [result |-> rec.result, disk |-> tasks.disk,
         cat |-> [cat EXCEPT !.consistency_status = rec.rows]]

\* ensure_all_nodes_synced lines 1007-1018: statuses are the rows of the
\* file and version, of every node.
ensure_all_nodes_synced(cat, file_id, version, nodes) ==
    LET statuses == {r \in cat.consistency_status :
                        r.file_id = file_id /\ r.version_number = version}
        all_synced == \A r \in statuses : r.status = "synced"
        synced_nodes == {r.node_name : r \in {q \in statuses : q.status = "synced"}}
    IN  all_synced /\ {nodes[k] : k \in 1..Len(nodes)} = synced_nodes

\* The lists of distinct nodes a caller passes, and the orders in which n
\* tasks complete.
NodeLists ==
    {nodes \in UNION {[1..n -> NodeNames] : n \in 1..Len(UPLOAD_FOLDERS)} :
        \A i, j \in DOMAIN nodes : i # j => nodes[i] # nodes[j]}

CompletionOrders(n) ==
    {order \in [1..n -> 1..n] : \A i, j \in 1..n : i # j => order[i] # order[j]}

\* The chunk locations the catalog records for a version of a file, in row
\* order.
LocationsOfVersion(cat, file_id, version) ==
    LET rows == SelectSeq([j \in 1..Len(cat.chunks) |-> j],
                          LAMBDA j : /\ cat.chunks[j].file_id = file_id
                                     /\ cat.chunks[j].version_number = version)
    IN  [k \in 1..Len(rows) |-> cat.chunks[rows[k]].chunk_location]

\* Whether version is the current version of file file_id.
IsCurrentVersion(cat, file_id, version) ==
    /\ file_id \in 1..Len(cat.metadata)
    /\ cat.metadata[file_id].current_version = version

\* A call of ensure_version_consistency for the current version of a file.
\* The response holds the arguments and the list of what the tasks returned.
EnsureVersionConsistency(file_id, version, nodes, order) ==
    /\ IsCurrentVersion(catalog, file_id, version)
    /\ \E o \in {ensure_version_consistency(catalog, disk, file_id, version, nodes,
                     LocationsOfVersion(catalog, file_id, version), order)} :
          /\ catalog' = o.cat
          /\ disk' = o.disk
          /\ resp' = Response("consistency", "", version, file_id,
                <<[nodes |-> nodes, result |-> o.result,
                   results |-> SyncTasks(disk, nodes,
                       LocationsOfVersion(catalog, file_id, version), << >>).results]>>)
    /\ scen' = NoScenario
    /\ UNCHANGED <<uploads, okUploads, faults, concVars, bgVars>>

\* A call of ensure_all_nodes_synced for the current version of a file.
EnsureAllNodesSynced(file_id, version, nodes) ==
    /\ IsCurrentVersion(catalog, file_id, version)
    /\ resp' = Response("all_synced", "", version, file_id,
          <<[nodes |-> nodes,
             result |-> ensure_all_nodes_synced(catalog, file_id, version, nodes)]>>)
    /\ scen' = NoScenario
    /\ UNCHANGED <<disk, catalog, uploads, okUploads, faults, concVars, bgVars>>

\* The uploads of one file and the calls that track the consistency of its
\* current version.
NextConsistency ==
    \/ \E c \in CapacityContents : Upload("f", c)
    \/ \E i \in FileIdsUsed, v \in Versions, nodes \in NodeLists :
          \E order \in CompletionOrders(Len(nodes)) :
              EnsureVersionConsistency(i, v, nodes, order)
    \/ \E i \in FileIdsUsed, v \in Versions, nodes \in NodeLists :
          EnsureAllNodesSynced(i, v, nodes)

SpecConsistency == Init /\ [][NextConsistency]_vars


\* The clients of two files and the tier thread, over the days.
NextTierScan ==
    \/ \E f \in CapacityFileNames, c \in CapacityContents : Upload(f, c)
    \/ \E n \in DaySteps : PassDays(n)
    \/ TierScan

SpecTierScan == Init /\ [][NextTierScan]_vars


(***************************************************************************)
(* download_file step by step (server.py:1915-2027), for request threads   *)
(* that run at the same time.  Every request for a filename reassembles    *)
(* into the same path, temp_downloads/tmp_<filename> (line 1962).          *)
(***************************************************************************)

\* What a file holds after data was written at its start.
Overlay(data, content) == data \o SubSeq(content, Len(data) + 1, Len(content))

\* open(temp_path, 'wb') of line 1965: the file is created, or truncated
\* when the path exists.
OpenTruncate(dl) ==
    IF dl.temp_file = {}
    THEN [ino |-> dl.inodes + 1, content |-> << >>]
    ELSE [ino |-> (CHOOSE t \in dl.temp_file : TRUE).ino, content |-> << >>]

\* Lines 1922-1965: the queries, and the open of the temp file.  A request
\* that finds nothing answers 404; one whose reassembly raises removes the
\* temp file and answers 500 (lines 2020-2027); the chunks are read as the
\* disk holds them now.
DownloadOpen(p, filename) ==
    /\ downloads.proc[p].pc = "idle"
    /\ downloads.started < MaxDownloads
    /\ \E r \in download_file(catalog, disk, filename, NoVersion) :
          IF r.status = 404
          THEN /\ downloads' = [downloads EXCEPT !.started = @ + 1]
               /\ resp' = r
          ELSE IF r.status = 500
          THEN /\ downloads' = [downloads EXCEPT
                     !.started = @ + 1,
                     !.inodes = OpenTruncate(downloads).ino,
                     !.temp_file = {}]
               /\ resp' = r
          ELSE /\ downloads' = [downloads EXCEPT
                     !.started = @ + 1,
                     !.inodes = OpenTruncate(downloads).ino,
                     !.temp_file = {OpenTruncate(downloads)},
                     !.proc[p] = [pc |-> "writing", filename |-> filename,
                                  version |-> SelectFile(catalog, filename).current_version,
                                  status |-> 200, data |-> r.data,
                                  ino |-> OpenTruncate(downloads).ino]]
               /\ resp' = Response("open", filename, NoVersion, 0, << >>)
    /\ scen' = NoScenario
    /\ UNCHANGED <<disk, catalog, uploads, okUploads, faults, concVars,
                   node_heartbeats, clock, today, dedup_runs, scope, monitor>>

\* Lines 1965-1997: the with block ends and the buffered bytes are written
\* at the start of the file the thread opened, which is the file at the
\* path unless that one was removed since.
DownloadClose(p) ==
    /\ downloads.proc[p].pc = "writing"
    /\ downloads' = [downloads EXCEPT
          !.proc[p].pc = "send",
          !.temp_file = {IF t.ino = downloads.proc[p].ino
                         THEN [t EXCEPT !.content =
                                  Overlay(downloads.proc[p].data, t.content)]
                         ELSE t : t \in downloads.temp_file}]
    /\ resp' = Response("close", downloads.proc[p].filename, NoVersion, 0, << >>)
    /\ scen' = NoScenario
    /\ UNCHANGED <<disk, catalog, uploads, okUploads, faults, concVars,
                   node_heartbeats, clock, today, dedup_runs, scope, monitor>>

\* Lines 2000-2018: send_file(temp_path) delivers what the file at the path
\* holds, or raises when there is none (500); either way the finally clause
\* starts the cleanup thread.
DownloadSend(p) ==
    /\ downloads.proc[p].pc = "send"
    /\ downloads' = [downloads EXCEPT !.proc[p].pc = "sent"]
    /\ resp' = IF downloads.temp_file = {}
               THEN Response("send", downloads.proc[p].filename,
                             downloads.proc[p].version, 500, << >>)
               ELSE Response("send", downloads.proc[p].filename,
                             downloads.proc[p].version, 200,
                             (CHOOSE t \in downloads.temp_file : TRUE).content)
    /\ scen' = NoScenario
    /\ UNCHANGED <<disk, catalog, uploads, okUploads, faults, concVars,
                   node_heartbeats, clock, today, dedup_runs, scope, monitor>>

\* Lines 2008-2014: delayed_cleanup removes the file at the path.
DownloadCleanup(p) ==
    /\ downloads.proc[p].pc = "sent"
    /\ downloads' = [downloads EXCEPT !.proc[p] = IdleDownload, !.temp_file = {}]
    /\ resp' = Response("cleanup", downloads.proc[p].filename, NoVersion, 0, << >>)
    /\ scen' = NoScenario
    /\ UNCHANGED <<disk, catalog, uploads, okUploads, faults, concVars,
                   node_heartbeats, clock, today, dedup_runs, scope, monitor>>

\* The uploads of one file and the download threads.
NextDownloads ==
    \/ \E c \in Contents : Upload("f", c)
    \/ \E p \in DownloadProcs : DownloadOpen(p, "f")
    \/ \E p \in DownloadProcs : DownloadClose(p)
    \/ \E p \in DownloadProcs : DownloadSend(p)
    \/ \E p \in DownloadProcs : DownloadCleanup(p)

SpecDownloads == Init /\ [][NextDownloads]_vars

(***************************************************************************)
(* Properties.                                                             *)
(***************************************************************************)

\* The bytes that were uploaded as a version of a file: the versions row
\* keeps the hash of the whole file, and the hash names the bytes.
VersionBytes(cat, file_id, version) ==
    (CHOOSE v \in cat.versions :
        v.file_id = file_id /\ v.version_number = version).hash.sha

\* The response of a download that delivers data.
Delivered(filename, data) == Response("download", filename, NoVersion, 200, data)

\* C1: round trip.  Right after a successful upload of a file of any length
\* (the empty file included), a download of the same filename without a
\* version parameter returns exactly the bytes uploaded.
C1_RoundTrip ==
    (resp.op = "upload" /\ resp.status = 200) =>
        download_file(catalog, disk, resp.filename, NoVersion)
            = {Delivered(resp.filename, resp.data)}

\* C1 for the files of at least one byte.
C1_RoundTripNonEmpty ==
    (resp.op = "upload" /\ resp.status = 200 /\ resp.data # << >>) =>
        download_file(catalog, disk, resp.filename, NoVersion)
            = {Delivered(resp.filename, resp.data)}

\* The Version rows of the file of a filename.
VersionRows(cat, filename) ==
    {v \in cat.versions : v.file_id \in FileIds(cat, filename)}

\* C2: version monotonicity.  After N successful uploads of a filename (and
\* no other request that writes) there is one file of that name, its
\* current_version is N and its Version rows are exactly N, numbered 1..N.
C2_VersionMonotonicity ==
    \A f \in FileNames :
        /\ Cardinality(FileIds(catalog, f)) = IF okUploads[f] = 0 THEN 0 ELSE 1
        /\ SelectFile(catalog, f).current_version = okUploads[f]
        /\ Cardinality(VersionRows(catalog, f)) = okUploads[f]
        /\ {v.version_number : v \in VersionRows(catalog, f)} = 1..okUploads[f]

\* C2's case: three successful uploads of one filename.
C2_Witness == \E f \in FileNames : okUploads[f] = MaxUploads

\* C3: rollback reversibility.  After the upload of v1 and then v2 under one
\* filename (both of at least one byte), a rollback to 1 makes
\* current_version 1 and a download returns the v1 bytes; a following
\* rollback to 2 makes current_version 2 and a download returns the v2 bytes.
C3_RollbackReversibility ==
    /\ (scen.phase = 3 /\ scen.v1 # << >> /\ scen.v2 # << >>) =>
          /\ SelectFile(catalog, scen.filename).current_version = 1
          /\ download_file(catalog, disk, scen.filename, NoVersion)
               = {Delivered(scen.filename, scen.v1)}
    /\ (scen.phase = 4 /\ scen.v1 # << >> /\ scen.v2 # << >>) =>
          /\ SelectFile(catalog, scen.filename).current_version = 2
          /\ download_file(catalog, disk, scen.filename, NoVersion)
               = {Delivered(scen.filename, scen.v2)}

\* C4: versioned read.  A download of a filename with version parameter V,
\* where the Version row exists, returns the bytes uploaded as version V; a
\* download without a parameter resolves to the file's current_version.
C4_VersionedRead ==
    \A f \in FileNames :
        /\ FileIds(catalog, f) # {} =>
              ResolveVersion(catalog, f, NoVersion).version_number
                  = SelectFile(catalog, f).current_version
        /\ \A v \in Versions :
              HasVersion(catalog, SelectFile(catalog, f).id, v) =>
                  \A r \in download_file(catalog, disk, f, v) :
                      /\ r.status = 200
                      /\ r.data = VersionBytes(catalog, SelectFile(catalog, f).id, v)

\* C5: replication tolerance.  Right after a successful upload of a file of
\* at least one byte (a first upload or a re-upload), whichever single chunk
\* file referenced by the new version is deleted, a download still returns
\* the bytes uploaded.
C5_ReplicationTolerance ==
    (resp.op = "upload" /\ resp.status = 200 /\ resp.data # << >>) =>
        \A j \in ActiveRows(catalog, SelectFile(catalog, resp.filename).id,
                            resp.version) :
            download_file(catalog,
                          RemoveFile(disk, catalog.chunks[j].chunk_location),
                          resp.filename, NoVersion)
                = {Delivered(resp.filename, resp.data)}

\* Whether some node directory holds a file of the basename of chunk row j
\* whose hash is the one the row records.
HasValidCopy(cat, d, j) ==
    \E n \in NodeNames :
        /\ Exists(d, [node |-> n, base |-> cat.chunks[j].chunk_location.base])
        /\ calculate_hash(d[[node |-> n, base |-> cat.chunks[j].chunk_location.base]])
             = cat.chunks[j].chunk_hash

\* Whether the version a download of the filename resolves to has a chunk
\* index none of whose rows has a valid copy.
Unrecoverable(cat, d, rv) ==
    /\ rv.outcome = "found"
    /\ \E i \in ChunkIndexes(cat, ActiveRows(cat, rv.file_id, rv.version_number)) :
          \A j \in ActiveRows(cat, rv.file_id, rv.version_number) :
              cat.chunks[j].chunk_index = i => ~HasValidCopy(cat, d, j)

\* The bytes decoded from payloads of exactly the hashes the selected rows
\* record, in chunk_index order.
RECURSIVE RecordedBytes(_, _, _)
RecordedBytes(cat, sel, idxs) ==
    IF idxs = {} THEN << >>
    ELSE decrypt_and_decompress_data(cat.chunks[sel[SetMin(idxs)]].chunk_hash.sha).data
         \o RecordedBytes(cat, sel, idxs \ {SetMin(idxs)})

\* The selections of rows all of which have a valid copy.
ValidSelections(cat, d, rv) ==
    {sel \in ChunkSelections(cat, rv.file_id, rv.version_number) :
        \A i \in DOMAIN sel : HasValidCopy(cat, d, sel[i])}

\* C6 for one response r of a download that resolved as rv.
UnrecoverableChunkRule(cat, d, rv, r) ==
    /\ Unrecoverable(cat, d, rv) => (r.status = 500 /\ r.data = << >>)
    /\ r.status = 200 =>
          \E sel \in ValidSelections(cat, d, rv) :
              r.data = RecordedBytes(cat, sel, DOMAIN sel)

\* C6: unrecoverable chunk.  If for some chunk index of the resolved version
\* no node directory holds a file of the chunk's basename with the recorded
\* hash, every download ends in 500 and delivers nothing; and the bytes a
\* download delivers are decoded from payloads of the recorded hashes only.
C6_UnrecoverableChunk ==
    \A f \in FileNames :
        \A r \in download_file(catalog, disk, f, NoVersion) :
            UnrecoverableChunkRule(catalog, disk,
                                   ResolveVersion(catalog, f, NoVersion), r)

\* C6's case: a download has answered 500 for a file one of whose chunks the
\* environment made unrecoverable.
C6_Witness ==
    /\ resp.op = "download" /\ resp.status = 500 /\ faults > 0
    /\ Unrecoverable(catalog, disk, ResolveVersion(catalog, resp.filename, NoVersion))

\* C7: chunk coverage.  For every non-archived file, the chunk rows with
\* status 'active' at the file's current_version cover the chunk indexes
\* 0..N-1 exactly, N being the number of CHUNK_SIZE chunks of the bytes
\* uploaded as that version.
C7_ChunkCoverage ==
    \A i \in 1..Len(catalog.metadata) :
        catalog.metadata[i].is_archived = 0 =>
            ChunkIndexes(catalog,
                         ActiveRows(catalog, i, catalog.metadata[i].current_version))
                = 0..(NumChunks(Len(VersionBytes(catalog, i,
                          catalog.metadata[i].current_version))) - 1)

\* C8: chunk integrity.  For every chunk row with status 'active' the file
\* at chunk_location exists and its hash is the row's chunk_hash.
C8_ChunkIntegrity ==
    \A j \in 1..Len(catalog.chunks) :
        catalog.chunks[j].status = "active" =>
            /\ Exists(disk, catalog.chunks[j].chunk_location)
            /\ calculate_hash(disk[catalog.chunks[j].chunk_location])
                 = catalog.chunks[j].chunk_hash

\* The chunk indexes of the rows of a version.
RowIndexes(cat, file_id, version) ==
    {cat.chunks[j].chunk_index :
        j \in {k \in 1..Len(cat.chunks) :
                  /\ cat.chunks[k].file_id = file_id
                  /\ cat.chunks[k].version_number = version}}

HasVersionChange(cat, file_id, version) ==
    \E j \in 1..Len(cat.version_changes) :
        /\ cat.version_changes[j].file_id = file_id
        /\ cat.version_changes[j].new_version = version

\* A catalog in which every upload is there as a whole: each File row has
\* the Version row of its current_version, each Version row has the chunk
\* rows of all its chunks and its VersionChange row, and no chunk row or
\* VersionChange row is there without its Version row and File row.
WholeUploads(cat) ==
    /\ \A i \in 1..Len(cat.metadata) :
          HasVersion(cat, i, cat.metadata[i].current_version)
    /\ \A v \in cat.versions :
          /\ v.file_id \in 1..Len(cat.metadata)
          /\ RowIndexes(cat, v.file_id, v.version_number)
               = 0..(NumChunks(v.size) - 1)
          /\ HasVersionChange(cat, v.file_id, v.version_number)
    /\ \A j \in 1..Len(cat.chunks) :
          HasVersion(cat, cat.chunks[j].file_id, cat.chunks[j].version_number)
    /\ \A j \in 1..Len(cat.version_changes) :
          HasVersion(cat, cat.version_changes[j].file_id,
                     cat.version_changes[j].new_version)
    /\ Len(cat.version_changes) = Cardinality(cat.versions)

\* C9: upload atomicity.  The catalog that the other connections read holds
\* the rows of an upload (File, Version, Chunk, VersionChange) all together
\* or not at all, whatever the upload's transaction has written so far.
C9_UploadAtomicity == WholeUploads(catalog)

\* C9's case: a reader got 404 for a filename whose File row and Version row
\* an open transaction has written but not committed.
C9_Witness ==
    /\ lock # 0
    /\ proc[lock].pc = "metadata"
    /\ proc[lock].content # << >>
    /\ ~WholeUploads(work)
    /\ resp.op = "download" /\ resp.status = 404
    /\ resp.filename = proc[lock].filename
    /\ FileIds(work, resp.filename) # {}

\* The versions assigned to the committed uploads of a filename, in commit
\* order.
RECURSIVE CommittedVersions(_, _)
CommittedVersions(log, filename) ==
    IF log = << >> THEN << >>
    ELSE IF Head(log).filename = filename
         THEN <<Head(log).version>> \o CommittedVersions(Tail(log), filename)
         ELSE CommittedVersions(Tail(log), filename)

\* C10: concurrent uploads of one filename.  Once all of them have finished,
\* the file's current_version is the number of those that committed, and
\* the versions were assigned 1, 2, ... in commit order.
C10_ConcurrentUploads ==
    (\A p \in Procs : proc[p].pc = "idle") =>
        \A f \in ConcFileNames :
            okUploads[f] > 0 =>
                /\ SelectFile(catalog, f).current_version = okUploads[f]
                /\ CommittedVersions(commitLog, f)
                     = [k \in 1..okUploads[f] |-> k]

\* Whether every download of the filename delivers.
Downloadable(cat, d, filename) ==
    \A r \in download_file(cat, d, filename, NoVersion) : r.status = 200

\* C11: heartbeat failover.  When a pass of the monitor finds a tracked node
\* whose last heartbeat is more than 40 seconds old, then after the pass no
\* chunk row that pointed under that node's directory still points under
\* it, and every file that was downloadable before the pass still is.
C11_HeartbeatFailover ==
    [][resp'.op = "monitor" =>
          \A x \in TrackedNodes(InactiveNodes(node_heartbeats, clock)) :
              /\ \A j \in 1..Len(catalog.chunks) :
                    catalog.chunks[j].chunk_location.node = x =>
                        catalog'.chunks[j].chunk_location.node # x
              /\ \A f \in FaultFileNames :
                    Downloadable(catalog, disk, f) => Downloadable(catalog', disk', f)
      ]_vars

\* The place of a file in the order hot, warm, cold, archived.
TierRank(file) ==
    IF file.is_archived = 1 THEN 3
    ELSE IF file.storage_tier = "cold" THEN 2
    ELSE IF file.storage_tier = "warm" THEN 1
    ELSE 0

\* C12: tier transitions.  A tier scan moves every non-archived file that is
\* hot and idle for more than 30 days to warm, every one that is warm and
\* idle for more than 90 days to cold, and archives every one that is cold and
\* idle for more than 180 days; it moves a file by one step at most and
\* never back.
C12_TierTransitions ==
    [][resp'.op = "tiers" =>
          \A i \in 1..Len(catalog.metadata) :
              catalog.metadata[i].is_archived = 0 =>
                  /\ (/\ catalog.metadata[i].storage_tier = "hot"
                      /\ DaysSinceAccess(catalog.metadata[i], today) > HotIdleDays)
                        => TierRank(catalog'.metadata[i]) = 1
                  /\ (/\ catalog.metadata[i].storage_tier = "warm"
                      /\ DaysSinceAccess(catalog.metadata[i], today) > WarmIdleDays)
                        => TierRank(catalog'.metadata[i]) = 2
                  /\ (/\ catalog.metadata[i].storage_tier = "cold"
                      /\ DaysSinceAccess(catalog.metadata[i], today) > ColdIdleDays)
                        => TierRank(catalog'.metadata[i]) = 3
                  /\ TierRank(catalog'.metadata[i]) - TierRank(catalog.metadata[i])
                        \in {0, 1}
      ]_vars

\* Whether File rows i and k are the only two files that hold the same
\* non-empty content under different filenames.
TwoCopies(cat, i, k) ==
    /\ i < k
    /\ cat.metadata[i].filename # cat.metadata[k].filename
    /\ VersionBytes(cat, i, cat.metadata[i].current_version) # << >>
    /\ \A m \in 1..Len(cat.metadata) :
          (VersionBytes(cat, m, cat.metadata[m].current_version)
              = VersionBytes(cat, i, cat.metadata[i].current_version))
          <=> m \in {i, k}

\* C13: deduplication.  Right after deduplication has run on a catalog in
\* which two File rows hold the same content under different filenames, the
\* row of the higher id has deduplication_ref set to the lower id, and a
\* Deduplication row exists with reference_count 2 and total_space_saved
\* equal to the size of the second file.
C13_Deduplication ==
    resp.op = "dedup" =>
        \A i, k \in 1..Len(catalog.metadata) :
            TwoCopies(catalog, i, k) =>
                /\ catalog.metadata[k].deduplication_ref = {i}
                /\ \E row \in catalog.deduplication :
                      /\ row.reference_count = 2
                      /\ row.total_space_saved = catalog.metadata[k].size

\* C14: rollback error and no-op cases.  A rollback of a filename to a
\* version V answers 404 and leaves the catalog as it was when no file of
\* that name has a Version row V (the unknown filename included); it answers
\* 200 and leaves the catalog as it was when V is the file's
\* current_version.
C14_RollbackErrors ==
    [][resp'.op = "rollback" =>
          /\ (\A i \in FileIds(catalog, resp'.filename) :
                 ~HasVersion(catalog, i, resp'.version))
                => (resp'.status = 404 /\ catalog' = catalog)
          /\ (/\ FileIds(catalog, resp'.filename) # {}
              /\ HasVersion(catalog, SelectFile(catalog, resp'.filename).id,
                            resp'.version)
              /\ resp'.version = SelectFile(catalog, resp'.filename).current_version)
                => (resp'.status = 200 /\ catalog' = catalog)
      ]_vars

\* C14's case: a rollback of an existing file to a version it does not have
\* was answered 404.
C14_Witness ==
    /\ resp.op = "rollback" /\ resp.status = 404
    /\ FileIds(catalog, resp.filename) # {}
    /\ ~HasVersion(catalog, SelectFile(catalog, resp.filename).id, resp.version)

\* The ids of the chunk rows of a version, whatever their status.
RowsOfVersion(cat, file_id, version) ==
    {j \in 1..Len(cat.chunks) :
        cat.chunks[j].file_id = file_id /\ cat.chunks[j].version_number = version}

\* The version numbers of the file's Version rows that are not deprecated:
\* those with a chunk row whose status is not 'deprecated'.
LiveVersions(cat, file_id) ==
    {v.version_number : v \in {w \in cat.versions :
        /\ w.file_id = file_id
        /\ \E j \in RowsOfVersion(cat, file_id, w.version_number) :
              cat.chunks[j].status # "deprecated"}}

\* C15: current-version invariant.  For every file all of whose versions
\* have chunk rows, current_version is the greatest version_number among
\* the file's Version rows that are not deprecated.
C15_CurrentVersion ==
    \A i \in 1..Len(catalog.metadata) :
        (\A v \in catalog.versions :
            v.file_id = i => RowsOfVersion(catalog, i, v.version_number) # {})
        => /\ catalog.metadata[i].current_version \in LiveVersions(catalog, i)
           /\ \A n \in LiveVersions(catalog, i) :
                 n <= catalog.metadata[i].current_version

\* C16: archive invariant.  A file with is_archived = 1 has no chunk row
\* with status 'active' and has an Archive row.
C16_ArchiveInvariant ==
    \A i \in 1..Len(catalog.metadata) :
        catalog.metadata[i].is_archived = 1 =>
            /\ ActiveRowsOfFile(catalog, i) = {}
            /\ ArchiveRowsOf(catalog, i) # {}


\* C19: after any sequence of uploads and rollbacks on a filename, the
\* version number the next upload of the filename assigns is not the
\* number of an existing Version row of the file.
C19_FreshVersion ==
    \A f \in FileNames :
        FileIds(catalog, f) # {} =>
            ~HasVersion(catalog, SelectFile(catalog, f).id,
                        NewVersion(SelectFile(catalog, f)))

\* Whether chunk row j of the catalog points to a file of the disk that
\* holds the bytes the row records.
PointsToRecorded(cat, d, j) ==
    /\ Exists(d, cat.chunks[j].chunk_location)
    /\ calculate_hash(d[cat.chunks[j].chunk_location]) = cat.chunks[j].chunk_hash

\* C18: a failed upload leaves every chunk file a committed chunk row
\* points to in place with its recorded bytes.
C18_FailedUploadKeepsCommitted ==
    [][(resp'.op = "upload" /\ resp'.status = 500) =>
          \A j \in 1..Len(catalog.chunks) :
              PointsToRecorded(catalog, disk, j) =>
                  PointsToRecorded(catalog, disk', j)]_vars


\* The chunk files a thread wrote that are on the disk with the bytes it
\* wrote: primary chunks and replica copies made during the catalog phase.
FilesOfUpload(d, written) ==
    {w \in written : Exists(d, w.path) /\ d[w.path] = w.data}

\* C20: when an upload that wrote chunk files and then failed has returned,
\* no chunk file it wrote, primary or replica copy, remains on any node.
C20_FailureCleanup ==
    [][\A p \in Procs :
          (/\ proc[p].pc = "finally"
           /\ ~proc[p].ok
           /\ proc[p].chunks # << >>
           /\ proc'[p].pc = "idle")
          => FilesOfUpload(disk', proc[p].written) = {}]_vars


\* C17: scoped catalog connection.  When a use of the scope has ended, the
\* body ran once, every connection the use opened is closed, and either the
\* body completed, the connection is committed and no error came out, or
\* the body raised, the one connection of the use is rolled back and the
\* error raised is the error that came out.
C17_ScopedConnection ==
    scope.pc = "done" =>
        /\ scope.bodies = 1
        /\ \A i \in 1..Len(scope.conns) : scope.conns[i].closed
        /\ \/ /\ scope.raised = "none"
              /\ scope.error = "none"
              /\ Len(scope.conns) = 1
              /\ scope.conns[1].committed
           \/ /\ scope.raised # "none"
              /\ scope.error = scope.raised
              /\ Len(scope.conns) = 1
              /\ scope.conns[1].rolled_back


\* The file a rollback request of the filename to the version works on: the
\* first file of that name with a Version row of that version, 0 for none.
RollbackTarget(cat, filename, version) ==
    IF {i \in FileIds(cat, filename) : HasVersion(cat, i, version)} = {}
    THEN 0
    ELSE SetMin({i \in FileIds(cat, filename) : HasVersion(cat, i, version)})

\* What the rollback transition of file i from version c to version v makes
\* of a chunk row.
RolledBackRow(r, i, c, v) ==
    IF r.file_id = i /\ r.version_number = c /\ r.status = "active"
    THEN [r EXCEPT !.status = "deprecated"]
    ELSE IF r.file_id = i /\ r.version_number = v /\ r.status = "deprecated"
    THEN [r EXCEPT !.status = "active"]
    ELSE r

\* The rollback transition from catalog cat to catalog new, for file i and
\* target version v.
RollbackTransition(cat, new, i, v) ==
    /\ Len(new.chunks) = Len(cat.chunks)
    /\ \A j \in 1..Len(cat.chunks) :
          new.chunks[j] =
              RolledBackRow(cat.chunks[j], i, cat.metadata[i].current_version, v)
    /\ new.metadata[i].current_version = v
    /\ new.versions = cat.versions

C22_RollbackVersionChange ==
    [][(/\ resp'.op = "rollback"
        /\ resp'.status = 200
        /\ RollbackTarget(catalog, resp'.filename, resp'.version) # 0
        /\ catalog.metadata[RollbackTarget(catalog, resp'.filename,
                                           resp'.version)].current_version
             # resp'.version)
       => catalog'.version_changes =
             Append(catalog.version_changes,
                    [file_id |-> RollbackTarget(catalog, resp'.filename,
                                                resp'.version),
                     old_version |->
                         catalog.metadata[RollbackTarget(catalog, resp'.filename,
                                              resp'.version)].current_version,
                     new_version |-> resp'.version,
                     change_type |-> "rollback"])]_vars


\* The primary chunk files an upload request of the content writes on disk
\* d, and the disk once they are written.
UploadChunkPhase(d, filename, content, u) ==
    ChunkPhase(d, secure_filename(filename), content, u)

\* The nodes the two attempts of the replication of the first chunk of an
\* upload select.
FirstChunkTargets(cp) ==
    ReplicaTargets(cp.disk, Head(cp.chunks), {Head(cp.chunks).node}, 2)

\* Whether the attempts never select the origin node nor the same node
\* twice.
DistinctTargets(t, origin) ==
    /\ \A k \in 1..Len(t) : t[k] # origin
    /\ \A k, l \in 1..Len(t) : (k < l /\ t[k] # NoNode) => t[k] # t[l]

\* C23: replication exclusion.  The two placement attempts of the
\* replication of a newly written chunk never select the origin node, and
\* never select the same node twice.
C23_ReplicationExclusion ==
    [][(resp'.op = "upload" /\ resp'.status = 200 /\ resp'.data # << >>)
       => DistinctTargets(
              FirstChunkTargets(UploadChunkPhase(disk, resp'.filename, resp'.data,
                                                 uploads')),
              Head(UploadChunkPhase(disk, resp'.filename, resp'.data,
                                    uploads').chunks).node)]_vars


\* The sizes a placement is asked for: up to one byte more than a node holds.
PlacementSizes == 0..(CAP + 1)

\* The position of a node in the fixed node order.
NodeIndex(n) == CHOOSE i \in 1..Len(UPLOAD_FOLDERS) : UPLOAD_FOLDERS[i] = n

\* The nodes a placement of S bytes may use on disk d.
PlacementCandidates(d, S, excluded) ==
    {n \in NodeNames \ excluded : CAP - UsedSpace(d, n) >= S}

\* Whether n is the placement the rule prescribes: a candidate of minimal
\* usage, the first of them in the node order; NoNode exactly when there is
\* no candidate.
IsPlacement(d, S, excluded, n) ==
    IF PlacementCandidates(d, S, excluded) = {}
    THEN n = NoNode
    ELSE /\ n \in PlacementCandidates(d, S, excluded)
         /\ \A m \in PlacementCandidates(d, S, excluded) :
               \/ UsedSpace(d, n) < UsedSpace(d, m)
               \/ UsedSpace(d, n) = UsedSpace(d, m) /\ NodeIndex(n) <= NodeIndex(m)

\* C24: placement.  On every disk, for every size S and exclusion set,
\* select_storage_node returns a non-excluded node with available >= S of
\* minimal usage, the first such node in the order Node1, Node2, Node3, and
\* fails exactly when no non-excluded node has available >= S.
C24_Placement ==
    \A S \in PlacementSizes, excluded \in SUBSET NodeNames :
        IsPlacement(disk, S, excluded, select_storage_node(S, disk, excluded))

\* C24's case: a node has no room for a chunk of a size uploads write and
\* the placement goes to another node, while with that node's peers
\* excluded it fails.
C24_Witness ==
    \E n \in NodeNames, S \in 1..3 :
        /\ AvailableSpace(disk, n) < S
        /\ select_storage_node(S, disk, {}) \in NodeNames \ {n}
        /\ select_storage_node(S, disk, NodeNames \ {n}) = NoNode


\* C25: node capacity invariant.  In every reachable state the chunk files
\* of each node directory take at most CAP bytes in total.
C25_NodeCapacity ==
    \A n \in NodeNames : UsedSpace(disk, n) <= CAP


\* Whether catalog new differs from catalog cat at most in the
\* chunk_location of chunk rows that lay under the directory of node x.
RedistributionFrame(cat, new, x) ==
    /\ Len(new.chunks) = Len(cat.chunks)
    /\ \A j \in 1..Len(cat.chunks) :
          /\ new.chunks[j] =
                [cat.chunks[j] EXCEPT !.chunk_location = new.chunks[j].chunk_location]
          /\ cat.chunks[j].chunk_location.node # x => new.chunks[j] = cat.chunks[j]

\* C26: redistribution frame.  A pass of the monitor that handles the
\* failure of one node X changes only the chunk_location of chunk rows that
\* lay under X's directory: rows under other nodes stay as they were and no
\* row's status changes.
C26_RedistributionFrame ==
    [][resp'.op = "monitor" =>
          \A x \in NodeNames :
              TrackedNodes(InactiveNodes(node_heartbeats, clock)) = {x}
                  => RedistributionFrame(catalog, catalog', x)]_vars


\* The nodes for which a pass of the monitor called handle_node_failure, and
\* those for which the call raised, from the record of the pass.
HandledIn(r) == {r.data[k].node : k \in 1..Len(r.data)}
RaisedIn(r) == {r.data[k].node : k \in {l \in 1..Len(r.data) : r.data[l].raised}}

\* C27: monitor ordering.  In a pass of the monitor taken at time clock,
\* failure handling is invoked exactly for the tracked nodes whose last
\* heartbeat is more than HEARTBEAT_THRESHOLD older than clock; a node
\* leaves the dictionary exactly when its handling returned without error;
\* a node whose heartbeat is at most HEARTBEAT_THRESHOLD old, and a node
\* whose handling raised, stay tracked with their heartbeat.
C27_MonitorOrdering ==
    [][resp'.op = "monitor" =>
          \A i \in 1..Len(node_heartbeats) :
              LET e == node_heartbeats[i] IN
              /\ e.node \in HandledIn(resp') <=> clock - e.last > HEARTBEAT_THRESHOLD
              /\ e.node \notin TrackedNodes(node_heartbeats')
                     <=> (e.node \in HandledIn(resp') /\ e.node \notin RaisedIn(resp'))
              /\ e.node \in TrackedNodes(node_heartbeats')
                     => \E k \in 1..Len(node_heartbeats') : node_heartbeats'[k] = e
      ]_vars

\* C27's case: a pass handled two inactive nodes, the handling of one
\* raised and that node is still tracked, the other is gone, and a node
\* with a fresh heartbeat is tracked.
C27_Witness ==
    /\ resp.op = "monitor"
    /\ \E x, y \in HandledIn(resp) :
          /\ x \in RaisedIn(resp) /\ x \in TrackedNodes(node_heartbeats)
          /\ y \notin RaisedIn(resp) /\ y \notin TrackedNodes(node_heartbeats)
    /\ \E z \in TrackedNodes(node_heartbeats) : z \notin HandledIn(resp)


\* The del of a pass removes only entries that are inactive at the
\* datetime.now() of the pass.
C28_DelKeepsFresh ==
    \A i \in 1..Len(node_heartbeats) :
        node_heartbeats[i].node \notin TrackedNodes(node_heartbeats')
            => IsInactive(node_heartbeats[i], monitor.now)

\* C28: heartbeat map guarding.  Under every interleaving of heartbeat with
\* the pass of the monitor, the iteration of node_heartbeats does not fail,
\* and the del of the pass does not remove a heartbeat recorded after the
\* datetime.now() the pass compared with: the entry it removes is still the
\* one the pass found older than the threshold.
C28_HeartbeatMapGuarded ==
    [][/\ resp'.op = "scan" => resp'.status = 200
       /\ resp'.op = "del" => C28_DelKeepsFresh
      ]_vars


\* Node x is considered failed: the monitor deleted it from node_heartbeats
\* and no heartbeat of it has arrived since.
Failed(x) == x \in monitor.deleted /\ x \notin TrackedNodes(node_heartbeats)

\* C29: while a node is considered failed, no step of the server writes a
\* file under its directory: no chunk of an upload, no replica, no
\* redistributed chunk.
C29_NoPlacementOnFailedNode ==
    [][\A x \in NodeNames :
          Failed(x) =>
              \A p \in DOMAIN disk' :
                  p.node = x => (p \in DOMAIN disk /\ disk'[p] = disk[p])
      ]_vars


\* C30: distinct replica locations.  No two chunk rows of the same file_id,
\* version_number and chunk_index have the same chunk_location.
C30_DistinctReplicaLocations ==
    \A i, j \in 1..Len(catalog.chunks) :
        (/\ i # j
         /\ catalog.chunks[i].file_id = catalog.chunks[j].file_id
         /\ catalog.chunks[i].version_number = catalog.chunks[j].version_number
         /\ catalog.chunks[i].chunk_index = catalog.chunks[j].chunk_index)
            => catalog.chunks[i].chunk_location # catalog.chunks[j].chunk_location


\* C31: only the current version is active.  Every chunk row with status
\* 'active' of a file that is not archived belongs to the file's
\* current_version.
C31_OnlyCurrentActive ==
    \A j \in 1..Len(catalog.chunks) :
        (/\ catalog.chunks[j].status = "active"
         /\ catalog.chunks[j].file_id \in 1..Len(catalog.metadata)
         /\ catalog.metadata[catalog.chunks[j].file_id].is_archived = 0)
            => catalog.chunks[j].version_number
                   = catalog.metadata[catalog.chunks[j].file_id].current_version


\* The catalog and the disk after archive_file and then
\* restore_archived_file of file_id.
ArchivedAndRestored(cat, d, file_id, ts) ==
    restore_archived_file(archive_file(cat, d, file_id).cat,
                          archive_file(cat, d, file_id).disk, file_id, ts)

\* The rows restore_archived_file inserted: those after the rows of cat.
RestoredRows(cat, new) == (Len(cat.chunks) + 1)..Len(new.chunks)

\* C32: archive/restore round trip.  For every file that is not archived
\* and whose download succeeds, archiving it and then restoring it leaves a
\* file whose download returns the same bytes, and every restored chunk row
\* records the hash of the bytes at its chunk_location.
C32_ArchiveRestoreRoundTrip ==
    \A i \in 1..Len(catalog.metadata) :
        LET filename == catalog.metadata[i].filename
            before == download_file(catalog, disk, filename, NoVersion)
            ar == ArchivedAndRestored(catalog, disk, i, today)
        IN  (/\ catalog.metadata[i].is_archived = 0
             /\ SelectFile(catalog, filename).id = i
             /\ \A b \in before : b.status = 200)
            => /\ download_file(ar.cat, ar.disk, filename, NoVersion) = before
               /\ \A j \in RestoredRows(catalog, ar.cat) :
                     /\ Exists(ar.disk, ar.cat.chunks[j].chunk_location)
                     /\ ar.cat.chunks[j].chunk_hash
                          = calculate_hash(ar.disk[ar.cat.chunks[j].chunk_location])


\* The positions, in the rows a tier scan fetched, of the files the scan
\* decides to move or archive.
ScanMovers(cat, now) ==
    {k \in 1..Len(ScannedFiles(cat)) :
        TierDecision(cat.metadata[ScannedFiles(cat)[k]], now) # "none"}

\* The first file for which the scan calls move_to_storage_tier or
\* archive_file.
FirstMover(cat, now) == ScannedFiles(cat)[SetMin(ScanMovers(cat, now))]

\* C33: tier re-encode.  When a tier scan calls move_to_storage_tier for a
\* file, afterwards metadata.storage_tier is the new tier and every active
\* chunk file of the file, at its unchanged path, holds the same plaintext.
C33_TierReencode ==
    [][(/\ resp'.op = "tiers"
        /\ ScanMovers(catalog, today) # {}
        /\ TierDecision(catalog.metadata[FirstMover(catalog, today)], today)
             \in {"warm", "cold"})
       => /\ catalog'.metadata[FirstMover(catalog, today)].storage_tier
               = TierDecision(catalog.metadata[FirstMover(catalog, today)], today)
          /\ \A j \in ActiveRowsOfFile(catalog, FirstMover(catalog, today)) :
                Exists(disk, catalog.chunks[j].chunk_location)
                  => /\ catalog'.chunks[j].chunk_location
                          = catalog.chunks[j].chunk_location
                     /\ Exists(disk', catalog.chunks[j].chunk_location)
                     /\ decrypt_and_decompress_data(disk'[catalog.chunks[j].chunk_location])
                          = decrypt_and_decompress_data(disk[catalog.chunks[j].chunk_location])
      ]_vars


\* The version numbers of the file's Version rows, and the n greatest.
VersionNumbers(cat, file_id) ==
    {v.version_number : v \in {w \in cat.versions : w.file_id = file_id}}

NewestVersions(cat, file_id, n) ==
    {v \in VersionNumbers(cat, file_id) :
        Cardinality({w \in VersionNumbers(cat, file_id) : w > v}) < n}

\* The chunk rows a step sets to 'deprecated'.
NewlyDeprecated(cat, new) ==
    {j \in 1..Len(cat.chunks) :
        cat.chunks[j].status # "deprecated" /\ new.chunks[j].status = "deprecated"}

\* The policy of the call of apply_retention_policy a response records.
PolicyOf(r) == CHOOSE p \in RetentionPolicies \cup {NoPolicy} : p.policy_name = r.filename

\* C34: retention keeps the newest versions.  For a file with more Version
\* rows than min_versions, apply_retention_policy deprecates no chunk row of
\* one of the min_versions highest-numbered versions, nor of a version
\* whose age is at most retention_period_days.
C34_RetentionKeepsNewest ==
    [][resp'.op = "retention" =>
          \A j \in NewlyDeprecated(catalog, catalog') :
              /\ catalog.chunks[j].version_number
                    \notin NewestVersions(catalog, resp'.status,
                                          PolicyOf(resp').min_versions)
              /\ \A v \in catalog.versions :
                    (/\ v.file_id = catalog.chunks[j].file_id
                     /\ v.version_number = catalog.chunks[j].version_number)
                        => today - v.timestamp > PolicyOf(resp').retention_period_days
      ]_vars

\* C35: retention never touches the current version.
\* apply_retention_policy sets no chunk row of the file's
\* metadata.current_version to 'deprecated', also after a rollback made an
\* older version current.
C35_RetentionKeepsCurrent ==
    [][resp'.op = "retention" =>
          \A j \in NewlyDeprecated(catalog, catalog') :
              catalog.chunks[j].version_number
                  # catalog.metadata[catalog.chunks[j].file_id].current_version
      ]_vars


\* The nodes of the list a call was made with.
NodesOf(nodes) == {nodes[k] : k \in 1..Len(nodes)}

\* C36: sync status recording.  After ensure_version_consistency returns,
\* every node of the list has a ConsistencyStatus row for the file and
\* version that is 'synced' if its sync succeeded and 'failed' otherwise,
\* whatever the order in which the syncs complete.
C36_SyncStatusRecorded ==
    [][resp'.op = "consistency" =>
          \A k \in 1..Len(resp'.data[1].nodes) :
              [file_id |-> resp'.status, version_number |-> resp'.version,
               node_name |-> resp'.data[1].nodes[k],
               status |-> IF resp'.data[1].results[k] THEN "synced" ELSE "failed"]
                  \in catalog'.consistency_status
      ]_vars

\* C37: ensure_all_nodes_synced returns true exactly when every node of the
\* list has a ConsistencyStatus row with status 'synced' for the file and
\* version, whatever the rows of the nodes that are not in the list; it
\* changes nothing in the catalog.
C37_AllNodesSynced ==
    [][resp'.op = "all_synced" =>
          /\ resp'.data[1].result
               <=> \A n \in NodesOf(resp'.data[1].nodes) :
                      [file_id |-> resp'.status, version_number |-> resp'.version,
                       node_name |-> n, status |-> "synced"]
                          \in catalog.consistency_status
          /\ catalog' = catalog
      ]_vars


\* C38: tier scan progress.  A tier scan reaches every file its first query
\* returned: a failure while one file is migrated or archived does not keep
\* the scan from the files after it.
C38_TierScanProgress ==
    [][resp'.op = "tiers" =>
          \A k \in 1..Len(ScannedFiles(catalog)) :
              \E l \in 1..Len(resp'.data) : resp'.data[l] = ScannedFiles(catalog)[k]
      ]_vars


\* C39: unique filename.  There is at most one File (metadata) row per
\* filename, also after two uploads of a new filename ran at the same time.
C39_UniqueFilename ==
    \A i, j \in 1..Len(catalog.metadata) :
        catalog.metadata[i].filename = catalog.metadata[j].filename => i = j


\* C40: concurrent downloads.  When downloads of one filename overlap, what
\* each of them sends is the complete bytes it reassembled for the version
\* it resolved: its temp file is not truncated, overwritten or removed by
\* the other request.
C40_ConcurrentDownloads ==
    [][\A p \in DownloadProcs :
          (/\ downloads.proc[p].pc = "send"
           /\ downloads'.proc[p].pc = "sent")
              => /\ resp'.status = 200
                 /\ resp'.data = downloads.proc[p].data
      ]_vars

====
